---- MODULE Spec2Model ----
(***************************************************************************)
(* Design-token propagation analysis (src/lib/propagationUtils.js).        *)
(*                                                                         *)
(* Text is modelled as a sequence of lexemes: the value                    *)
(* "calc(var(--tok) - 4px)" is <<"calc(", "var(", "--tok", ")", "-",       *)
(* "4px", ")">>.  A path is the sequence of its segments.  percentage is   *)
(* kept in hundredths (50.00 is 5000, the sentinel -1 is -100).            *)
(***************************************************************************)
EXTENDS Integers, Sequences, FiniteSets, TLC

VARIABLES
    css,                  \* content of the analysed file on disk (its parsed form)
    pc,                   \* position of the getPropagationData call
    filePath,             \* argument of the call
    extQueue,             \* external files collectExternalVars still has to visit
    foundVariables,       \* the call's scope map
    root,                 \* the AST parseCSS resolved with
    foundPropValues,      \* the call's declarations
    usageFindingsBuffer,  \* module-level findings buffer
    tracker,              \* module-level UnresolvedVarTracker
    pending,              \* reports built by the call, not yet written
    disk,                 \* reports last written
    result,               \* value the call returned
    failure,              \* what the catch block of the call logged and threw
    givenFindings,        \* argument of a direct buildUsageAggregates call
    builtAggregates,      \* what that call returned
    calls,                \* the getPropagationData calls a driver made in this process
    run,                  \* the analysis run the driver is in
    givenPath,            \* argument of a direct normalizePathForOutput call
    normalized,           \* what that call returned
    element,              \* reactive properties of a NonTokenValuesElement
    window,               \* the window's location.search and session history
    loads,                \* the #load calls of the element, in the order they began
    rendered              \* what the last _rows call returned

\* The state of one getPropagationData call and of the module around it.
callVars == << css, pc, filePath, extQueue, foundVariables, root, foundPropValues,
               usageFindingsBuffer, tracker, pending, disk, result, failure >>

\* The state of a direct call of the exported aggregator.
aggregatorVars == << givenFindings, builtAggregates >>

\* The state of a driver that analyses several files in one process.
driverVars == << calls, run >>

\* The state of a direct call of the exported path normalisation.
pathVars == << givenPath, normalized >>

\* The state of a NonTokenValuesElement and of the window it lives in.
elementVars == << element, window, loads, rendered >>

\* What a getPropagationData call leaves alone.
otherVars == << aggregatorVars, driverVars, pathVars, elementVars >>

vars == << callVars, otherVars >>

----------------------------------------------------------------------------
(* Bounds of the input family. *)

MaxUsage == 2

----------------------------------------------------------------------------
(* Generic helpers. *)

EmptyMap == [x \in {} |-> x]

Put(f, k, v) == [x \in (DOMAIN f) \cup {k} |-> IF x = k THEN v ELSE f[x]]

Get(f, k, default) == IF k \in DOMAIN f THEN f[k] ELSE default

RECURSIVE Flatten(_)
Flatten(seqs) ==
    IF seqs = <<>> THEN <<>> ELSE Head(seqs) \o Flatten(Tail(seqs))

Includes(hay, needle) ==
    \E i \in 1..(Len(hay) - Len(needle) + 1) :
        SubSeq(hay, i, i + Len(needle) - 1) = needle

----------------------------------------------------------------------------
(* Run configuration. *)

repoPath == <<"project">>

TOKEN_KEY_SET == {"--tok", "--gap"}

designTokenProperties == {"color", "border"}

CustomProperties == {"--a", "--b", "--e", "--tok", "--gap"}

exclusionRules ==
    { [descriptorPattern |-> "*", exact |-> {<<"inherit">>},
       containing |-> {"calc(", "max("}] }

CssFileNames ==
    {"button.css", "common.css", "missing.css", "page.css", "theme.css"}

externalVarMapping ==
    << [pattern |-> <<"widgets", "*.css">>,
        files |-> << <<"widgets", "common.css">>, <<"widgets", "missing.css">> >>],
       [pattern |-> <<"widgets", "button.css">>,
        files |-> << <<"shared", "theme.css">> >>] >>

----------------------------------------------------------------------------
(* Paths. *)

IsPrefix(p, q) == Len(p) <= Len(q) /\ SubSeq(q, 1, Len(p)) = p

\* JavaScript values handed to normalizePathForOutput.  A string is a path:
\* its segments, and whether it begins with a separator.
Str(absolute, segments) ==
    [type |-> "string", absolute |-> absolute, segments |-> segments]

NonString(type) == [type |-> type, absolute |-> FALSE, segments |-> <<>>]

\* An absolute path of the analysis as a string.
PathString(path) == Str(TRUE, path)

\* process.cwd(), against which path.relative resolves a relative path.
cwd == <<"tool">>

\* The segment names that begin with two dots.
DotDotNames == {"..", "..cache"}

\* path.resolve of a path string: the segments from the root, with ".."
\* applied.
RECURSIVE ResolveSegments(_, _)
ResolveSegments(segments, acc) ==
    IF segments = <<>> THEN acc
    ELSE IF Head(segments) = ".."
    THEN ResolveSegments(Tail(segments),
                         IF acc = <<>> THEN acc ELSE SubSeq(acc, 1, Len(acc) - 1))
    ELSE ResolveSegments(Tail(segments), Append(acc, Head(segments)))

PathResolve(string) ==
    ResolveSegments(IF string.absolute THEN string.segments
                    ELSE cwd \o string.segments, <<>>)

\* path.relative(from, to): throws for an argument that is not a string,
\* else goes up from `from` to the common directory and down to `to`.
PathRelative(from, to) ==
    IF from.type # "string" \/ to.type # "string"
    THEN [threw |-> TRUE, value |-> NonString("undefined")]
    ELSE LET f == PathResolve(from)
             t == PathResolve(to)
             common == Cardinality({k \in 1..Len(f) :
                           k <= Len(t) /\ SubSeq(f, 1, k) = SubSeq(t, 1, k)})
         IN [threw |-> FALSE,
             value |-> Str(FALSE, [i \in 1..(Len(f) - common) |-> ".."]
                                  \o SubSeq(t, common + 1, Len(t)))]

\* relative.startsWith('..')
StartsWithDotDot(relative) ==
    relative.segments # <<>> /\ relative.segments[1] \in DotDotNames

\* The body of normalizePathForOutput, relativised being what path.relative
\* did: the catch block returns the argument.
NormalizeGiven(absolutePath, relativised) ==
    IF absolutePath = Str(FALSE, <<>>) \/ absolutePath.type # "string"
    THEN absolutePath
    ELSE IF relativised.threw THEN absolutePath
    ELSE IF relativised.value # Str(FALSE, <<>>)
            /\ ~StartsWithDotDot(relativised.value)
         THEN [relativised.value EXCEPT !.absolute = FALSE]
         ELSE absolutePath

normalizePathForOutput(absolutePath) ==
    NormalizeGiven(absolutePath,
                   PathRelative(PathString(repoPath), absolutePath))

SegmentMatches(segment, glob) ==
    IF glob = "*.css" THEN segment \in CssFileNames
    ELSE IF glob = "*" THEN TRUE
    ELSE segment = glob

\* minimatch(filePath, `**/${pattern}`): the pattern matches the last segments.
minimatch(path, pattern) ==
    /\ Len(path) >= Len(pattern)
    /\ \A i \in 1..Len(pattern) :
          SegmentMatches(path[Len(path) - Len(pattern) + i], pattern[i])

\* path.resolve(path.join(config.repoPath, externalRelPath))
ResolveExternal(externalRelPath) == repoPath \o externalRelPath

----------------------------------------------------------------------------
(* The CSS syntax tree: a root is a sequence of rules, a rule has a selector *)
(* and a sequence of declarations.                                          *)

Decl(prop, value) == [prop |-> prop, value |-> value]

Rule(selector, nodes) == [selector |-> selector, nodes |-> nodes]

Var(name) == <<"var(", name, ")">>

VarWithFallback(name, fallback) == <<"var(", name, ",">> \o fallback \o <<")">>

\* What root.walk visits that has a prop: the declarations in document order,
\* each with its parent rule and its source position.
RECURSIVE WalkFrom(_, _)
WalkFrom(ast, r) ==
    IF r > Len(ast) THEN <<>>
    ELSE [i \in 1..Len(ast[r].nodes) |->
              [prop |-> ast[r].nodes[i].prop, value |-> ast[r].nodes[i].value,
               parent |-> r, start |-> <<r, i>>]]
         \o WalkFrom(ast, r + 1)

Walk(ast) == WalkFrom(ast, 1)

\* node.parent.toString()
RuleToString(rule) ==
    <<rule.selector, "{">>
    \o Flatten([i \in 1..Len(rule.nodes) |->
                   <<rule.nodes[i].prop, ":">> \o rule.nodes[i].value \o <<";">>])
    \o <<"}">>

isVariableDefinition(prop) == prop \in CustomProperties

isTokenizableProperty(prop) == prop \in designTokenProperties

isWithinValidParentSelector(ast, node) ==
    ast[node.parent].selector \in {":root", ":host"}

getVarData(node, isExternal, file) ==
    [value |-> node.value, isExternal |-> isExternal, src |-> file,
     start |-> node.start]

\* ruleConsumesVar searching the whole file instead of the enclosing rule.
ruleConsumesVarAnywhere(ast, node) ==
    /\ isVariableDefinition(node.prop)
    /\ \E r \in 1..Len(ast) :
          Includes(RuleToString(ast[r]), <<"var(", node.prop, ")">>)

ruleConsumesVar(ast, node) ==
    /\ isVariableDefinition(node.prop)
    /\ Includes(RuleToString(ast[node.parent]), <<"var(", node.prop, ")">>)

\* The walk callback with a later definition replacing the one in scope.
CollectNodeOverwriting(ast, node, acc, file) ==
    IF node.value = <<>> THEN acc
    ELSE IF isTokenizableProperty(node.prop)
    THEN [acc EXCEPT !.declarations =
              Append(@, [prop |-> node.prop, value |-> node.value,
                         start |-> node.start])]
    ELSE IF /\ isVariableDefinition(node.prop)
            /\ (isWithinValidParentSelector(ast, node) \/ ruleConsumesVar(ast, node))
    THEN [acc EXCEPT !.foundVariables =
              Put(@, node.prop, getVarData(node, FALSE, file))]
    ELSE acc

\* One step of the walk callback of collectDeclarations on accumulator acc.
CollectNode(ast, node, acc, file) ==
    IF node.value = <<>> THEN acc
    ELSE IF isTokenizableProperty(node.prop)
    THEN [acc EXCEPT !.declarations =
              Append(@, [prop |-> node.prop, value |-> node.value,
                         start |-> node.start])]
    ELSE IF /\ isVariableDefinition(node.prop)
            /\ (isWithinValidParentSelector(ast, node) \/ ruleConsumesVar(ast, node))
    THEN IF node.prop \in DOMAIN acc.foundVariables
         THEN acc
         ELSE [acc EXCEPT !.foundVariables =
                   Put(@, node.prop, getVarData(node, FALSE, file))]
    ELSE acc

RECURSIVE CollectFrom(_, _, _, _, _)
CollectFrom(ast, nodes, k, acc, file) ==
    IF k > Len(nodes) THEN acc
    ELSE CollectFrom(ast, nodes, k + 1, CollectNode(ast, nodes[k], acc, file), file)

\* Returns the declarations and the scope map the walk leaves behind.
collectDeclarations(ast, scope, file) ==
    CollectFrom(ast, Walk(ast), 1,
                [declarations |-> <<>>, foundVariables |-> scope], file)

\* getExternalVars: the :root/:host custom-property definitions of a file.
RECURSIVE ExternalFrom(_, _, _, _, _)
ExternalFrom(ast, nodes, k, acc, file) ==
    IF k > Len(nodes) THEN acc
    ELSE ExternalFrom(ast, nodes, k + 1,
            IF /\ isVariableDefinition(nodes[k].prop)
               /\ isWithinValidParentSelector(ast, nodes[k])
               /\ nodes[k].prop \notin DOMAIN acc
            THEN Put(acc, nodes[k].prop, getVarData(nodes[k], TRUE, file))
            ELSE acc,
            file)

getExternalVars(ast, file) == ExternalFrom(ast, Walk(ast), 1, EmptyMap, file)

\* { ...foundVariables, ...extVars }
Spread(a, b) ==
    [n \in (DOMAIN a) \cup (DOMAIN b) |-> IF n \in DOMAIN b THEN b[n] ELSE a[n]]


----------------------------------------------------------------------------
(* Resolution trace, classification and token extraction. *)

\* The names of the var() occurrences of a value, in text order.
VarOccurrences(value) ==
    LET at == {i \in 1..(Len(value) - 1) : value[i] = "var("}
        RECURSIVE From(_)
        From(i) == IF i >= Len(value) THEN <<>>
                   ELSE IF i \in at THEN <<value[i + 1]>> \o From(i + 1)
                   ELSE From(i + 1)
    IN From(1)

InChain(name, chain) == \E i \in 1..Len(chain) : chain[i] = name

Leaf(kind, name, chain) == [kind |-> kind, name |-> name, chain |-> chain]

\* Resolution whose cycle guard takes a repeated name for a resolved value.
RECURSIVE ResolveNameRepeatResolved(_, _, _)
ResolveNameRepeatResolved(name, chain, scope) ==
    IF name \in TOKEN_KEY_SET THEN <<Leaf("token", name, chain)>>
    ELSE IF InChain(name, chain) THEN <<Leaf("literal", name, chain)>>
    ELSE IF name \in DOMAIN scope
    THEN LET inner == VarOccurrences(scope[name].value)
             next  == Append(chain, name)
         IN IF inner = <<>> THEN <<Leaf("literal", name, next)>>
            ELSE Flatten([i \in 1..Len(inner) |->
                             ResolveNameRepeatResolved(inner[i], next, scope)])
    ELSE <<Leaf("unresolved", name, chain)>>

\* The leaves one var(name) occurrence resolves to, chain being the names
\* already traversed for it.
RECURSIVE ResolveName(_, _, _)
ResolveName(name, chain, scope) ==
    IF name \in TOKEN_KEY_SET THEN <<Leaf("token", name, chain)>>
    ELSE IF InChain(name, chain) THEN <<Leaf("cycle", name, chain)>>
    ELSE IF name \in DOMAIN scope
    THEN LET inner == VarOccurrences(scope[name].value)
             next  == Append(chain, name)
         IN IF inner = <<>> THEN <<Leaf("literal", name, next)>>
            ELSE Flatten([i \in 1..Len(inner) |->
                             ResolveName(inner[i], next, scope)])
    ELSE <<Leaf("unresolved", name, chain)>>

buildResolutionTrace(value, scope) ==
    LET occurrences == VarOccurrences(value)
    IN [raw |-> value,
        attempts |-> [i \in 1..Len(occurrences) |->
                         ResolveName(occurrences[i], <<>>, scope)]]

Leaves(trace) == Flatten(trace.attempts)

MatchesExclusion(prop, raw) ==
    \E rule \in exclusionRules :
        /\ rule.descriptorPattern \in {"*", prop}
        /\ \/ raw \in rule.exact
           \/ \E i \in 1..Len(raw) : raw[i] \in rule.containing

analyzeTrace(trace, prop) ==
    [containsDesignToken |->
         \E i \in 1..Len(Leaves(trace)) : Leaves(trace)[i].kind = "token",
     containsExcludedDeclaration |-> MatchesExclusion(prop, trace.raw)]

getUnresolvedVariablesFromTrace(trace, scope) ==
    LET leaves == Leaves(trace)
        RECURSIVE From(_)
        From(i) == IF i > Len(leaves) THEN <<>>
                   ELSE IF leaves[i].kind \in {"unresolved", "cycle"}
                        THEN <<leaves[i].name>> \o From(i + 1)
                        ELSE From(i + 1)
    IN From(1)

classifyResolutionFromTrace(trace, scope, file) ==
    LET leaves == Leaves(trace)
    IN IF \E i \in 1..Len(leaves) : \E j \in 1..Len(leaves[i].chain) :
              /\ leaves[i].chain[j] \in DOMAIN scope
              /\ scope[leaves[i].chain[j]].isExternal
       THEN "external" ELSE "local"

extractDesignTokenIdsFromDecl(decl, tokenKeys) ==
    LET leaves == Leaves(decl.resolutionTrace)
        RECURSIVE From(_)
        From(i) == IF i > Len(leaves) THEN <<>>
                   ELSE IF leaves[i].kind = "token" /\ leaves[i].name \in tokenKeys
                        THEN <<leaves[i].name>> \o From(i + 1)
                        ELSE From(i + 1)
    IN From(1)

----------------------------------------------------------------------------
(* UnresolvedVarTracker: the entries recorded so far, and its report. *)

addFromDeclaration(entries, decl, file) ==
    entries \o [i \in 1..Len(decl.unresolvedVariables) |->
                   [name |-> decl.unresolvedVariables[i], file |-> file,
                    descriptor |-> decl.prop, value |-> decl.value]]

toReport(entries) ==
    LET names == {entries[i].name : i \in 1..Len(entries)}
        files(n) == {entries[i].file : i \in {j \in 1..Len(entries) : entries[j].name = n}}
    IN [n \in names |->
           [total |-> Cardinality({i \in 1..Len(entries) : entries[i].name = n}),
            files |-> [f \in files(n) |->
                          Cardinality({i \in 1..Len(entries) :
                                          entries[i].name = n /\ entries[i].file = f})]]]


----------------------------------------------------------------------------
(* resolveDeclarationReferences, its per-declaration loop body first. *)

\* The annotations the loop body attaches to one declaration.  tokens = <<>>
\* stands for a declaration without a tokens property.
ResolveDeclaration(decl, scope, file) ==
    LET trace    == buildResolutionTrace(decl.value, scope)
        analysis == analyzeTrace(trace, decl.prop)
        traced   == [prop |-> decl.prop, value |-> decl.value, start |-> decl.start,
                     resolutionTrace |-> trace]
    IN [prop |-> decl.prop, value |-> decl.value, start |-> decl.start,
        resolutionTrace |-> trace,
        containsDesignToken |-> analysis.containsDesignToken,
        isExcluded |-> analysis.containsExcludedDeclaration,
        unresolvedVariables |-> getUnresolvedVariablesFromTrace(trace, scope),
        resolutionType |-> classifyResolutionFromTrace(trace, scope, file),
        tokens |-> extractDesignTokenIdsFromDecl(traced, TOKEN_KEY_SET)]

\* isIgnoredValue that looks at the exclusion alone.
isIgnoredWhenExcluded(decl) == decl.isExcluded

isIgnoredValue(decl) == decl.isExcluded /\ ~decl.containsDesignToken

\* Finding carrying the names the value refers to instead of the token ids.
FindingByReference(decl, file) ==
    [path |-> file, descriptor |-> decl.prop, value |-> decl.value,
     containsToken |-> decl.containsDesignToken,
     isIgnored |-> decl.isExcluded /\ ~decl.containsDesignToken,
     tokens |-> IF decl.tokens = <<>> THEN <<>> ELSE VarOccurrences(decl.value)]

\* The record pushed to usageFindingsBuffer for a resolved declaration.
Finding(decl, file) ==
    [path |-> file, descriptor |-> decl.prop, value |-> decl.value,
     containsToken |-> decl.containsDesignToken,
     isIgnored |-> isIgnoredValue(decl),
     tokens |-> decl.tokens]

\* The loop putting each finding at the front of the buffer.
RECURSIVE ResolveFromUnshift(_, _, _, _, _)
ResolveFromUnshift(declarations, k, scope, file, acc) ==
    IF k > Len(declarations) THEN acc
    ELSE LET decl == ResolveDeclaration(declarations[k], scope, file)
         IN ResolveFromUnshift(declarations, k + 1, scope, file,
                [declarations |-> Append(acc.declarations, decl),
                 tracker |-> addFromDeclaration(acc.tracker, decl, file),
                 buffer |-> <<Finding(decl, file)>> \o acc.buffer])

\* The for-loop over the declarations: the resolved declarations, the buffer
\* and the tracker it leaves behind.
RECURSIVE ResolveFrom(_, _, _, _, _)
ResolveFrom(declarations, k, scope, file, acc) ==
    IF k > Len(declarations) THEN acc
    ELSE LET decl == ResolveDeclaration(declarations[k], scope, file)
         IN ResolveFrom(declarations, k + 1, scope, file,
                [declarations |-> Append(acc.declarations, decl),
                 tracker |-> addFromDeclaration(acc.tracker, decl, file),
                 buffer |-> Append(acc.buffer, Finding(decl, file))])

computeDesignTokenSummary(declarations) ==
    [designTokenCount |->
         Cardinality({i \in 1..Len(declarations) :
                         declarations[i].containsDesignToken}),
     ignoredValueCount |->
         Cardinality({i \in 1..Len(declarations) :
                         declarations[i].isExcluded
                         /\ ~declarations[i].containsDesignToken})]

\* +(ratio * 100).toFixed(2), in hundredths.
RoundedPercentage(designTokenCount, foundLessIgnored) ==
    (20000 * designTokenCount + foundLessIgnored) \div (2 * foundLessIgnored)

\* Percentage with every found declaration in the denominator.
PercentageOfFound(declarations) ==
    IF Len(declarations) # 0
    THEN RoundedPercentage(
             computeDesignTokenSummary(declarations).designTokenCount,
             Len(declarations))
    ELSE -100

Percentage(declarations) ==
    LET summary == computeDesignTokenSummary(declarations)
        foundLessIgnored == Len(declarations) - summary.ignoredValueCount
    IN IF Len(declarations) # 0 /\ foundLessIgnored # 0
       THEN RoundedPercentage(summary.designTokenCount, foundLessIgnored)
       ELSE -100

Summary(declarations, scope) ==
    [designTokenCount |-> computeDesignTokenSummary(declarations).designTokenCount,
     foundProps |-> Len(declarations),
     percentage |-> Percentage(declarations),
     foundPropValues |-> declarations,
     foundVariables |-> scope]

----------------------------------------------------------------------------
(* buildUsageAggregates (the accumulation loop). *)

\* The counter of a key marked as seen instead of incremented.
IncrementOnce(counts, key) == Put(counts, key, 1)

Increment(counts, key) == Put(counts, key, Get(counts, key, 0) + 1)

NewValueEntry(finding) ==
    [count |-> 0, containsToken |-> finding.containsToken,
     isIgnored |-> finding.isIgnored, tokens |-> finding.tokens,
     files |-> EmptyMap]

\* The descriptor bucket taking isIgnored from the finding at hand.
AggregateDescriptorLastWins(byDescriptor, finding) ==
    LET relativePath    == normalizePathForOutput(PathString(finding.path))
        descriptorEntry == Get(byDescriptor, finding.descriptor, [values |-> EmptyMap])
        valueEntry      == Get(descriptorEntry.values, finding.value,
                               NewValueEntry(finding))
        updated == [valueEntry EXCEPT
                       !.count = @ + 1,
                       !.isIgnored = finding.isIgnored,
                       !.files = Increment(@, relativePath)]
    IN Put(byDescriptor, finding.descriptor,
           [values |-> Put(descriptorEntry.values, finding.value, updated)])

AggregateDescriptor(byDescriptor, finding) ==
    LET relativePath    == normalizePathForOutput(PathString(finding.path))
        descriptorEntry == Get(byDescriptor, finding.descriptor, [values |-> EmptyMap])
        valueEntry      == Get(descriptorEntry.values, finding.value,
                               NewValueEntry(finding))
        updated == [valueEntry EXCEPT
                       !.count = @ + 1,
                       !.isIgnored = IF finding.isIgnored THEN TRUE ELSE @,
                       !.files = Increment(@, relativePath)]
    IN Put(byDescriptor, finding.descriptor,
           [values |-> Put(descriptorEntry.values, finding.value, updated)])

\* Token aggregation that counts a token once per finding.
RECURSIVE AggregateTokensOnce(_, _, _)
AggregateTokensOnce(byToken, finding, k) ==
    IF k > Len(finding.tokens) THEN byToken
    ELSE IF \E j \in 1..(k - 1) : finding.tokens[j] = finding.tokens[k]
    THEN AggregateTokensOnce(byToken, finding, k + 1)
    ELSE LET tokenId    == finding.tokens[k]
             tokenEntry == Get(byToken, tokenId,
                               [total |-> 0, files |-> EmptyMap,
                                descriptors |-> EmptyMap])
             updated == [total |-> tokenEntry.total + 1,
                         files |-> Increment(tokenEntry.files,
                                      normalizePathForOutput(PathString(finding.path))),
                         descriptors |-> Increment(tokenEntry.descriptors,
                                            finding.descriptor)]
         IN AggregateTokensOnce(Put(byToken, tokenId, updated), finding, k + 1)

RECURSIVE AggregateTokens(_, _, _)
AggregateTokens(byToken, finding, k) ==
    IF k > Len(finding.tokens) THEN byToken
    ELSE LET tokenId    == finding.tokens[k]
             tokenEntry == Get(byToken, tokenId,
                               [total |-> 0, files |-> EmptyMap,
                                descriptors |-> EmptyMap])
             updated == [total |-> tokenEntry.total + 1,
                         files |-> Increment(tokenEntry.files,
                                      normalizePathForOutput(PathString(finding.path))),
                         descriptors |-> Increment(tokenEntry.descriptors,
                                            finding.descriptor)]
         IN AggregateTokens(Put(byToken, tokenId, updated), finding, k + 1)

RECURSIVE AggregateFrom(_, _, _)
AggregateFrom(usageFindings, k, acc) ==
    IF k > Len(usageFindings) THEN acc
    ELSE AggregateFrom(usageFindings, k + 1,
            [byDescriptor |-> AggregateDescriptor(acc.byDescriptor, usageFindings[k]),
             byToken |-> AggregateTokens(acc.byToken, usageFindings[k], 1)])

----------------------------------------------------------------------------
(* buildUsageAggregates (the id assignment).  A string is the sequence of   *)
(* the UTF-16 code units of its characters, which Array.prototype.sort      *)
(* compares.                                                                *)

\* The characters a lexeme is written with.
CodeUnits(lexeme) ==
    CASE lexeme = "var("    -> <<118, 97, 114, 40>>
      [] lexeme = "calc("   -> <<99, 97, 108, 99, 40>>
      [] lexeme = "max("    -> <<109, 97, 120, 40>>
      [] lexeme = ")"       -> <<41>>
      [] lexeme = ","       -> <<44, 32>>
      [] lexeme = "-"       -> <<32, 45, 32>>
      [] lexeme = "4px"     -> <<52, 112, 120>>
      [] lexeme = "inherit" -> <<105, 110, 104, 101, 114, 105, 116>>
      [] lexeme = "--a"     -> <<45, 45, 97>>
      [] lexeme = "--b"     -> <<45, 45, 98>>
      [] lexeme = "--e"     -> <<45, 45, 101>>
      [] lexeme = "--tok"   -> <<45, 45, 116, 111, 107>>
      [] lexeme = "--gap"   -> <<45, 45, 103, 97, 112>>
      [] lexeme = "color"   -> <<99, 111, 108, 111, 114>>
      [] lexeme = "border"  -> <<98, 111, 114, 100, 101, 114>>
      [] lexeme = "width"   -> <<119, 105, 100, 116, 104>>

\* The string a key stands for, the key being a sequence of lexemes (a
\* descriptor is a single one).
StringOf(key) == Flatten([i \in 1..Len(key) |-> CodeUnits(key[i])])

\* a sorts before b in the default comparison of Array.prototype.sort.
StringLess(a, b) ==
    \E k \in 1..Len(b) :
        /\ k - 1 <= Len(a)
        /\ \A j \in 1..(k - 1) : a[j] = b[j]
        /\ (k <= Len(a) => a[k] < b[k])

\* Object.keys(...) left in insertion order.
unsorted(keys) == keys

\* Array.prototype.sort() of a list of distinct keys.
RECURSIVE sort(_)
sort(keys) ==
    IF keys = <<>> THEN <<>>
    ELSE LET least == CHOOSE i \in 1..Len(keys) :
                          \A j \in 1..Len(keys) :
                              j # i => StringLess(StringOf(keys[i]), StringOf(keys[j]))
         IN <<keys[least]>>
            \o sort([i \in 1..(Len(keys) - 1) |->
                        IF i < least THEN keys[i] ELSE keys[i + 1]])

\* String(n) of a natural number: its decimal digits.
RECURSIVE String(_)
String(n) ==
    IF n < 10 THEN <<48 + n>> ELSE String(n \div 10) \o <<48 + (n % 10)>>

\* Object.keys(descriptorValues.byDescriptor): the descriptors in the order
\* the loop inserted them.
RECURSIVE DescriptorKeys(_, _)
DescriptorKeys(usageFindings, k) ==
    IF k = 0 THEN <<>>
    ELSE LET before == DescriptorKeys(usageFindings, k - 1)
         IN IF \E j \in 1..Len(before) : before[j] = usageFindings[k].descriptor
            THEN before ELSE Append(before, usageFindings[k].descriptor)

\* Object.keys(descriptorEntry.values), in insertion order too.
RECURSIVE ValueKeys(_, _, _)
ValueKeys(usageFindings, descriptorName, k) ==
    IF k = 0 THEN <<>>
    ELSE LET before == ValueKeys(usageFindings, descriptorName, k - 1)
         IN IF \/ usageFindings[k].descriptor # descriptorName
               \/ \E j \in 1..Len(before) : before[j] = usageFindings[k].value
            THEN before ELSE Append(before, usageFindings[k].value)

\* The inner loop: the values of one descriptor take the next ids.
RECURSIVE AssignValueIds(_, _, _, _)
AssignValueIds(values, valueKeys, k, nextId) ==
    IF k > Len(valueKeys) THEN [values |-> values, nextId |-> nextId]
    ELSE AssignValueIds(
             Put(values, valueKeys[k],
                 Put(values[valueKeys[k]], "id", String(nextId))),
             valueKeys, k + 1, nextId + 1)

\* The id loop with a counter of its own for the values of each descriptor.
RECURSIVE AssignIdsPerDescriptor(_, _, _, _, _)
AssignIdsPerDescriptor(byDescriptor, usageFindings, descriptorNames, k, nextId) ==
    IF k > Len(descriptorNames) THEN byDescriptor
    ELSE LET descriptorName  == descriptorNames[k]
             valueKeys == sort(ValueKeys(usageFindings, descriptorName,
                                         Len(usageFindings)))
             walked == AssignValueIds(byDescriptor[descriptorName].values,
                                      valueKeys, 1, 0)
         IN AssignIdsPerDescriptor(
                Put(byDescriptor, descriptorName,
                    [id |-> String(nextId), values |-> walked.values]),
                usageFindings, descriptorNames, k + 1, nextId + 1)

\* The outer loop: a descriptor takes the next id, then its values do.
RECURSIVE AssignIds(_, _, _, _, _)
AssignIds(byDescriptor, usageFindings, descriptorNames, k, nextId) ==
    IF k > Len(descriptorNames) THEN byDescriptor
    ELSE LET descriptorName  == descriptorNames[k]
             valueKeys == sort(ValueKeys(usageFindings, descriptorName,
                                         Len(usageFindings)))
             walked == AssignValueIds(byDescriptor[descriptorName].values,
                                      valueKeys, 1, nextId + 1)
         IN AssignIds(
                Put(byDescriptor, descriptorName,
                    [id |-> String(nextId), values |-> walked.values]),
                usageFindings, descriptorNames, k + 1, walked.nextId)

\* Aggregates of the newest finding alone.
buildFromNewestFinding(usageFindings) ==
    LET newest == IF usageFindings = <<>> THEN <<>>
                  ELSE <<usageFindings[Len(usageFindings)]>>
        acc == AggregateFrom(newest, 1, [byDescriptor |-> EmptyMap, byToken |-> EmptyMap])
        descriptorKeys == DescriptorKeys(newest, Len(newest))
        sortedKeys == sort([i \in 1..Len(descriptorKeys) |-> <<descriptorKeys[i]>>])
        descriptorNames == [i \in 1..Len(sortedKeys) |-> sortedKeys[i][1]]
    IN [tokenUsage |-> [byToken |-> acc.byToken],
        descriptorValues |-> [byDescriptor |-> AssignIds(acc.byDescriptor, newest, descriptorNames, 1, 0)]]

buildUsageAggregates(usageFindings) ==
    LET acc == AggregateFrom(usageFindings, 1,
                   [byDescriptor |-> EmptyMap, byToken |-> EmptyMap])
        descriptorKeys == DescriptorKeys(usageFindings, Len(usageFindings))
        sortedKeys == sort([i \in 1..Len(descriptorKeys) |-> <<descriptorKeys[i]>>])
        descriptorNames == [i \in 1..Len(sortedKeys) |-> sortedKeys[i][1]]
    IN [tokenUsage |-> [byToken |-> acc.byToken],
        descriptorValues |->
            [byDescriptor |-> AssignIds(acc.byDescriptor, usageFindings,
                                        descriptorNames, 1, 0)]]


----------------------------------------------------------------------------
(* The files on disk. *)

\* The external files that exist (widgets/missing.css does not).
ExternalFiles ==
    [p \in { <<"project", "widgets", "common.css">>,
             <<"project", "shared", "theme.css">> } |->
        IF p = <<"project", "widgets", "common.css">>
        THEN << Rule(":root", << Decl("--a", <<"4px">>),
                                 Decl("--e", Var("--tok")) >>),
                Rule(".foo", << Decl("--b", <<"4px">>) >>) >>
        ELSE << Rule(":host", << Decl("--a", Var("--tok")),
                                 Decl("--tok", <<"4px">>) >>) >>]

AnalysedPaths ==
    { <<"project", "widgets", "button.css">>,
      <<"project", "widgets", "common.css">>,
      <<"project", "other", "page.css">> }

Selectors == {":root", ":host", ".foo"}

\* Bodies of the rule that defines custom properties.
DefBodies ==
    { << Decl("--a", Var("--tok")) >>,
      << Decl("--a", <<"4px">>) >>,
      << Decl("--b", Var("--tok")), Decl("--a", Var("--b")) >>,
      << Decl("--a", Var("--b")), Decl("--b", Var("--a")) >>,
      << Decl("--a", Var("--a")) >>,
      << Decl("--a", <<"4px">>), Decl("--a", Var("--tok")) >>,
      << Decl("--tok", <<"4px">>) >>,
      << Decl("--a", Var("--e")) >>,
      << Decl("--e", Var("--tok")), Decl("--b", Var("--e")),
         Decl("--a", Var("--b")) >> }

\* Declarations that use values.
UsageDecls ==
    { Decl("color", Var("--a")),
      Decl("border", Var("--a") \o Var("--a")),
      Decl("color", Var("--tok")),
      Decl("color", <<"inherit">>),
      Decl("color", <<"calc(">> \o Var("--tok") \o <<"-", "4px", ")">>),
      Decl("border", <<"4px">>),
      Decl("width", Var("--a")),
      Decl("color", VarWithFallback("--a", <<"4px">>)) }

\* Files of other shapes: three tokenizable declarations, a definition used
\* from another rule than its own, and an alias over two names.
ExtraFiles ==
    { << Rule(".btn", << Decl("color", Var("--tok")), Decl("border", <<"4px">>),
                         Decl("color", Var("--a")) >>) >>,
      << Rule(".btn", << Decl("color", Var("--tok")), Decl("border", Var("--tok")),
                         Decl("color", <<"4px">>) >>) >>,
      << Rule(":host", << Decl("--a", Var("--tok")) >>),
         Rule(".foo", << Decl("--b", Var("--a")) >>),
         Rule(".bar", << Decl("color", Var("--b")) >>) >>,
      << Rule(":host", << Decl("--a", Var("--tok")), Decl("--e", Var("--tok")) >>),
         Rule(".foo", << Decl("--b", <<"calc(">> \o Var("--a") \o <<"-">>
                                      \o Var("--e") \o <<")">>),
                         Decl("border", Var("--b")) >>) >> }

UsageSeqs == UNION {[1..n -> UsageDecls] : n \in 0..MaxUsage}

UsageRule(usage) == IF usage = <<>> THEN <<>> ELSE << Rule(".btn", usage) >>

\* The analysed files: usage alone, definitions and usage in one rule, and
\* definitions in a rule of their own followed by the usage.
CssFiles ==
    {UsageRule(usage) : usage \in UsageSeqs}
    \cup {<< Rule(sel, body \o usage) >> :
              sel \in Selectors, body \in DefBodies, usage \in UsageSeqs}
    \cup {<< Rule(sel, body) >> \o UsageRule(usage) :
              sel \in Selectors, body \in DefBodies, usage \in UsageSeqs}
    \cup ExtraFiles

----------------------------------------------------------------------------
(* The state machine of one getPropagationData call. *)

ReportNames == {"unresolvedVars", "tokenUsage", "descriptorValues"}

\* The parts of the state a behaviour does not use stay as they are here.
AggregatorUnused == givenFindings = <<>> /\ builtAggregates = <<>>

DriverUnused == calls = <<>> /\ run = 0

PathUnused == givenPath = <<>> /\ normalized = <<>>

ElementUnused ==
    element = <<>> /\ window = <<>> /\ loads = <<>> /\ rendered = <<>>

NoReports == [r \in ReportNames |-> <<>>]

\* The external files collectExternalVars visits for a path, in order; the
\* one that is the analysed file itself is skipped.
RECURSIVE ExternalsFrom(_, _)
ExternalsFrom(path, k) ==
    IF k > Len(externalVarMapping) THEN <<>>
    ELSE (IF minimatch(path, externalVarMapping[k].pattern)
          THEN SelectSeq(externalVarMapping[k].files,
                         LAMBDA rel : ResolveExternal(rel) # path)
          ELSE <<>>)
         \o ExternalsFrom(path, k + 1)

Init ==
    /\ css \in CssFiles
    /\ pc = "idle"
    /\ filePath = <<>>
    /\ extQueue = <<>>
    /\ foundVariables = EmptyMap
    /\ root = <<>>
    /\ foundPropValues = <<>>
    /\ usageFindingsBuffer = <<>>
    /\ tracker = <<>>
    /\ pending = NoReports
    /\ disk = NoReports
    /\ result = <<>>
    /\ failure = <<>>
    /\ AggregatorUnused
    /\ DriverUnused
    /\ PathUnused
    /\ ElementUnused

\* getPropagationData(path) up to its first await.
Call(path) ==
    /\ pc = "idle"
    /\ filePath' = path
    /\ extQueue' = ExternalsFrom(path, 1)
    /\ pc' = IF ExternalsFrom(path, 1) = <<>> THEN "parse" ELSE "externals"
    /\ UNCHANGED << otherVars, failure >>
    /\ UNCHANGED << css, foundVariables, root, foundPropValues,
                    usageFindingsBuffer, tracker, pending, disk, result >>

\* One iteration of collectExternalVars: fs.access and getExternalVars settle
\* (a file that cannot be read contributes nothing) and the maps are merged.
CollectExternal ==
    /\ pc = "externals"
    /\ LET externalAbsPath == ResolveExternal(Head(extQueue))
           extVars == IF externalAbsPath \in DOMAIN ExternalFiles
                      THEN getExternalVars(ExternalFiles[externalAbsPath],
                                           externalAbsPath)
                      ELSE EmptyMap
       IN foundVariables' = Spread(foundVariables, extVars)
    /\ extQueue' = Tail(extQueue)
    /\ pc' = IF Tail(extQueue) = <<>> THEN "parse" ELSE "externals"
    /\ UNCHANGED << otherVars, failure >>
    /\ UNCHANGED << css, filePath, root, foundPropValues, usageFindingsBuffer,
                    tracker, pending, disk, result >>

\* parseCSS read and parsed the file.
ParseCSS ==
    /\ pc = "parse"
    /\ root' = css
    /\ pc' = "parsed"
    /\ UNCHANGED << otherVars, failure >>
    /\ UNCHANGED << css, filePath, extQueue, foundVariables, foundPropValues,
                    usageFindingsBuffer, tracker, pending, disk, result >>

\* The errors an awaited operation of the call can reject with: parseCSS
\* when the file cannot be read or parsed, fs.mkdir and fs.writeFile.
\* mentions holds the paths the message names.
Rejections(at, path) ==
    IF at = "parse"
    THEN { [name |-> "Error", text |-> "ENOENT: no such file or directory, open",
            mentions |-> {path}],
           [name |-> "CssSyntaxError", text |-> "Unclosed block",
            mentions |-> {}] }
    ELSE { [name |-> "Error", text |-> "EACCES: permission denied",
            mentions |-> {<<"build", "data">>}] }

\* String(err) of an error: its name, a colon and its message.
ErrorToString(err) ==
    [text |-> <<err.name, ": ", err.text>>, mentions |-> err.mentions]

\* The catch block: what console.error prints and the error thrown.
Catch(path, err) ==
    [cause  |-> err,
     logged |-> [text |-> <<"Unable to read or parse ", " ", err.text>>,
                 mentions |-> {path} \cup err.mentions],
     raised |-> [name |-> "Error", message |-> ErrorToString(err)]]

\* An awaited operation rejected: the catch block logs and rethrows.  When
\* it is one of the writes, any of the others may have reached the disk.
Throw ==
    /\ pc \in {"parse", "mkdir", "write"}
    /\ pc' = "failed"
    /\ \E err \in Rejections(pc, filePath) : failure' = <<Catch(filePath, err)>>
    /\ \E written \in SUBSET ReportNames :
          /\ written # ReportNames
          /\ pc # "write" => written = {}
          /\ disk' = [r \in ReportNames |->
                         IF r \in written THEN pending[r] ELSE disk[r]]
    /\ UNCHANGED otherVars
    /\ UNCHANGED << css, filePath, extQueue, foundVariables, root,
                    foundPropValues, usageFindingsBuffer, tracker, pending,
                    result >>

\* collectDeclarations, then resolveDeclarationReferences up to fs.mkdir.
Resolve ==
    /\ pc = "parsed"
    /\ LET collected == collectDeclarations(root, foundVariables, filePath)
           resolved  == ResolveFrom(collected.declarations, 1,
                            collected.foundVariables, filePath,
                            [declarations |-> <<>>, tracker |-> tracker,
                             buffer |-> usageFindingsBuffer])
           aggregates == buildUsageAggregates(resolved.buffer)
       IN /\ foundVariables' = collected.foundVariables
          /\ foundPropValues' = resolved.declarations
          /\ tracker' = resolved.tracker
          /\ usageFindingsBuffer' = resolved.buffer
          /\ pending' = [unresolvedVars |-> <<toReport(resolved.tracker)>>,
                         tokenUsage |-> <<aggregates.tokenUsage>>,
                         descriptorValues |-> <<aggregates.descriptorValues>>]
    /\ pc' = "mkdir"
    /\ UNCHANGED << otherVars, failure >>
    /\ UNCHANGED << css, filePath, extQueue, root, disk, result >>

\* fs.mkdir resolved; the three writes are issued.
Mkdir ==
    /\ pc = "mkdir"
    /\ pc' = "write"
    /\ UNCHANGED << otherVars, failure >>
    /\ UNCHANGED << css, filePath, extQueue, foundVariables, root,
                    foundPropValues, usageFindingsBuffer, tracker, pending,
                    disk, result >>

\* Promise.all of the writes resolved; getPropagationData builds its summary.
WriteReports ==
    /\ pc = "write"
    /\ disk' = pending
    /\ result' = <<Summary(foundPropValues, foundVariables)>>
    /\ pc' = "done"
    /\ UNCHANGED << otherVars, failure >>
    /\ UNCHANGED << css, filePath, extQueue, foundVariables, root,
                    foundPropValues, usageFindingsBuffer, tracker, pending >>

Next ==
    \/ \E path \in AnalysedPaths : Call(path)
    \/ CollectExternal
    \/ ParseCSS
    \/ Throw
    \/ Resolve
    \/ Mkdir
    \/ WriteReports

Spec == Init /\ [][Next]_vars


----------------------------------------------------------------------------
(* Vocabulary of the properties. *)

\* The call has run its resolution loop and built its reports.
Resolved == pc \in {"mkdir", "write", "done"}

Returned == pc = "done"

Occurs(x, seq) == \E i \in 1..Len(seq) : seq[i] = x

Times(x, seq) == Cardinality({i \in 1..Len(seq) : seq[i] = x})

\* A var() usage of name in a text, with or without a fallback.
UsesVar(text, name) ==
    \E i \in 1..(Len(text) - 1) : text[i] = "var(" /\ text[i + 1] = name

\* The definitions of name in a file: the nodes that declare it with a value.
DefinitionsOf(ast, name) ==
    {i \in 1..Len(Walk(ast)) :
        Walk(ast)[i].prop = name /\ Walk(ast)[i].value # <<>>}

\* The names some existing external file mapped to path defines in a :root
\* or :host rule.
ExternalNames(path) ==
    {n \in CustomProperties :
        \E k \in 1..Len(externalVarMapping) :
            /\ minimatch(path, externalVarMapping[k].pattern)
            /\ \E j \in 1..Len(externalVarMapping[k].files) :
                  LET abs == ResolveExternal(externalVarMapping[k].files[j])
                  IN /\ abs # path
                     /\ abs \in DOMAIN ExternalFiles
                     /\ \E r \in 1..Len(ExternalFiles[abs]) :
                           /\ ExternalFiles[abs][r].selector \in {":root", ":host"}
                           /\ \E d \in 1..Len(ExternalFiles[abs][r].nodes) :
                                 ExternalFiles[abs][r].nodes[d].prop = n}

\* The token an alias chain starting at name ends in, "" when it ends
\* elsewhere; only definitions with a single var() are followed.
RECURSIVE Terminal(_, _, _)
Terminal(name, scope, fuel) ==
    IF name \in TOKEN_KEY_SET THEN name
    ELSE IF fuel = 0 \/ name \notin DOMAIN scope THEN ""
    ELSE LET inner == VarOccurrences(scope[name].value)
         IN IF Len(inner) = 1 THEN Terminal(inner[1], scope, fuel - 1) ELSE ""

TerminalOf(name, scope) == Terminal(name, scope, Cardinality(DOMAIN scope))

\* How many var() occurrences of a value end in token through such a chain.
ChainUses(value, token, scope) ==
    Cardinality({i \in 1..Len(VarOccurrences(value)) :
                    TerminalOf(VarOccurrences(value)[i], scope) = token})

\* No definition in scope refers to more than one name.
LinearScope(scope) ==
    \A n \in DOMAIN scope : Len(VarOccurrences(scope[n].value)) <= 1

----------------------------------------------------------------------------
(* C1 *)

EligibleCount(declarations) ==
    Cardinality({i \in 1..Len(declarations) :
                    ~(declarations[i].isExcluded
                      /\ ~declarations[i].containsDesignToken)})

\* C1: a returned summary has percentage -1 exactly when no declaration is
\* eligible (found and not both excluded and token-free); otherwise the
\* percentage is 100 * designTokenCount / eligible rounded to two decimals,
\* lies in [0, 100] and is 0 when no declaration contains a token.
PercentageContract ==
    Returned =>
        LET r == result[1]
            eligible == EligibleCount(r.foundPropValues)
            withToken == Cardinality({i \in 1..Len(r.foundPropValues) :
                                         r.foundPropValues[i].containsDesignToken})
        IN /\ r.foundProps = Len(r.foundPropValues)
           /\ r.designTokenCount = withToken
           /\ (r.percentage = -100) <=> (eligible = 0)
           /\ eligible # 0 =>
                 /\ 2 * (r.percentage * eligible - 10000 * withToken) <= eligible
                 /\ 2 * (10000 * withToken - r.percentage * eligible) < eligible
                 /\ r.percentage \in 0..10000
                 /\ (withToken = 0 => r.percentage = 0)

\* Declarations were found, all of them ignored: the sentinel is returned.
PercentageSentinelReached ==
    /\ Returned
    /\ result[1].foundProps > 0
    /\ EligibleCount(result[1].foundPropValues) = 0
    /\ result[1].percentage = -100

----------------------------------------------------------------------------
(* C2 *)

\* C2: a local definition of a name no external file defines is in the
\* scope map if and only if some definition of it is in a :root or :host
\* rule or in a rule whose text has a var() usage of the name in any form.
ScopeAcceptsAnyVarForm ==
    Resolved =>
        \A n \in CustomProperties \ ExternalNames(filePath) :
            (n \in DOMAIN foundVariables) <=>
                \E i \in DefinitionsOf(root, n) :
                    LET node == Walk(root)[i]
                    IN \/ root[node.parent].selector \in {":root", ":host"}
                       \/ UsesVar(RuleToString(root[node.parent]), n)

----------------------------------------------------------------------------
(* C3 *)

\* name is defined in the file, only in rules other than :root and :host
\* that do not use it themselves, and by no external file.
DefinedOutOfScope(ast, path, name) ==
    /\ name \in CustomProperties \ TOKEN_KEY_SET
    /\ name \notin ExternalNames(path)
    /\ DefinitionsOf(ast, name) # {}
    /\ \A i \in DefinitionsOf(ast, name) :
          LET rule == ast[Walk(ast)[i].parent]
          IN /\ rule.selector \notin {":root", ":host"}
             /\ ~UsesVar(RuleToString(rule), name)

TokenizableNodes(ast) ==
    Cardinality({i \in 1..Len(Walk(ast)) :
                    /\ Walk(ast)[i].value # <<>>
                    /\ Walk(ast)[i].prop \in designTokenProperties})

\* C3: a name defined only out of scope is not in the scope map; a
\* declaration referring to it is returned, counted in foundProps, lists the
\* name as unresolved and has a resolutionType; when it refers to nothing
\* else it contains no token and its resolutionType is local.
OutOfScopeIsUnresolved ==
    Returned =>
        LET r == result[1] IN
        /\ r.foundProps = TokenizableNodes(css)
        /\ Len(usageFindingsBuffer) = r.foundProps
        /\ \A i \in 1..Len(r.foundPropValues) :
              LET d == r.foundPropValues[i]
                  names == VarOccurrences(d.value)
              IN /\ d.resolutionType \in {"local", "external"}
                 /\ \A k \in 1..Len(names) :
                       DefinedOutOfScope(css, filePath, names[k]) =>
                           /\ names[k] \notin DOMAIN r.foundVariables
                           /\ Occurs(names[k], d.unresolvedVariables)
                 /\ (/\ names # <<>>
                     /\ \A k \in 1..Len(names) :
                           DefinedOutOfScope(css, filePath, names[k]))
                    => /\ ~d.containsDesignToken
                       /\ d.tokens = <<>>
                       /\ d.resolutionType = "local"

\* A returned declaration refers to a name defined only out of scope.
OutOfScopeReferenceReached ==
    /\ Returned
    /\ \E i \in 1..Len(result[1].foundPropValues) :
          LET names == VarOccurrences(result[1].foundPropValues[i].value)
          IN /\ names # <<>>
             /\ \A k \in 1..Len(names) :
                   DefinedOutOfScope(css, filePath, names[k])
             /\ ~result[1].foundPropValues[i].containsDesignToken


----------------------------------------------------------------------------
(* C4 *)

\* The var() occurrences of the buffered findings, as <<finding, occurrence>>.
BufferedOccurrences ==
    UNION {{<<i, k>> : k \in 1..Len(VarOccurrences(usageFindingsBuffer[i].value))} :
              i \in 1..Len(usageFindingsBuffer)}

OccurrenceName(o) == VarOccurrences(usageFindingsBuffer[o[1]].value)[o[2]]

\* The buffered occurrences that reach token through an alias chain in scope.
UsesOf(token) ==
    {o \in BufferedOccurrences :
        TerminalOf(OccurrenceName(o), foundVariables) = token}

\* C4: every usage whose alias chain, of whatever length, ends in a design
\* token is counted in the token's entry of the token-usage aggregate, and
\* the aggregate has entries for token ids only, none for an alias.
AliasChainsCountForToken ==
    Resolved =>
        LET byToken == pending.tokenUsage[1].byToken IN
        /\ DOMAIN byToken \subseteq TOKEN_KEY_SET
        /\ \A t \in TOKEN_KEY_SET :
              UsesOf(t) # {} =>
                  /\ t \in DOMAIN byToken
                  /\ byToken[t].total >= Cardinality(UsesOf(t))

\* A usage reaches the token over two aliases or more and is counted.
AliasChainReached ==
    /\ Returned
    /\ \E o \in BufferedOccurrences :
          LET a == OccurrenceName(o) IN
          /\ a \in DOMAIN foundVariables /\ a \notin TOKEN_KEY_SET
          /\ VarOccurrences(foundVariables[a].value) # <<>>
          /\ LET b == VarOccurrences(foundVariables[a].value)[1] IN
             /\ b \in DOMAIN foundVariables /\ b \notin TOKEN_KEY_SET
             /\ TerminalOf(a, foundVariables) \in TOKEN_KEY_SET
             /\ TerminalOf(a, foundVariables) \in DOMAIN disk.tokenUsage[1].byToken

----------------------------------------------------------------------------
(* C5 *)

----------------------------------------------------------------------------
(* C6 *)

\* C6: no name of the design-token set is ever in the scope map, and every
\* reference to such a name resolves to a token leaf.
TokenNamesNeverInScope ==
    /\ \A n \in TOKEN_KEY_SET : n \notin DOMAIN foundVariables
    /\ \A i \in 1..Len(foundPropValues) :
          LET names == VarOccurrences(foundPropValues[i].value)
              attempts == foundPropValues[i].resolutionTrace.attempts
          IN \A k \in 1..Len(names) :
                names[k] \in TOKEN_KEY_SET =>
                    attempts[k] = <<Leaf("token", names[k], <<>>)>>

----------------------------------------------------------------------------
(* C7 *)

\* The definitions of name the collector accepts, by position in the walk.
AcceptedDefinitions(ast, name) ==
    {i \in DefinitionsOf(ast, name) :
        /\ ~isTokenizableProperty(name)
        /\ \/ isWithinValidParentSelector(ast, Walk(ast)[i])
           \/ ruleConsumesVar(ast, Walk(ast)[i])}

FirstOf(positions) == CHOOSE i \in positions : \A j \in positions : i <= j

\* C7: collecting the local definitions raises no error and leaves every
\* entry that was in scope as it was; a name it adds gets its first accepted
\* definition, later ones are skipped.
CollisionsAreSkipped ==
    [][pc = "parsed" =>
          /\ pc' = "mkdir"
          /\ \A n \in DOMAIN foundVariables :
                /\ n \in DOMAIN foundVariables'
                /\ foundVariables'[n] = foundVariables[n]
          /\ \A n \in (DOMAIN foundVariables') \ (DOMAIN foundVariables) :
                /\ AcceptedDefinitions(root, n) # {}
                /\ foundVariables'[n].start
                       = Walk(root)[FirstOf(AcceptedDefinitions(root, n))].start
                /\ foundVariables'[n].value
                       = Walk(root)[FirstOf(AcceptedDefinitions(root, n))].value
                /\ ~foundVariables'[n].isExternal]_vars

\* The file defines, in scope, a name an external file had defined, and the
\* external definition is the one in the scope map.
CollisionReached ==
    /\ pc = "mkdir"
    /\ \E n \in DOMAIN foundVariables :
          /\ foundVariables[n].isExternal
          /\ \E i \in AcceptedDefinitions(root, n) :
                Walk(root)[i].value # foundVariables[n].value

----------------------------------------------------------------------------
(* C8 *)

\* C8: an entry of the scope map, once inserted, is never replaced.
ScopeEntriesImmutable ==
    [][\A n \in DOMAIN foundVariables :
          /\ n \in DOMAIN foundVariables'
          /\ foundVariables'[n] = foundVariables[n]]_vars

----------------------------------------------------------------------------
(* C9 *)

\* The name the definition of name refers to, "" when it is not a single one.
Follow(name, scope) ==
    IF name \in DOMAIN scope /\ name \notin TOKEN_KEY_SET
       /\ Len(VarOccurrences(scope[name].value)) = 1
    THEN VarOccurrences(scope[name].value)[1]
    ELSE ""

RECURSIVE FollowTimes(_, _, _)
FollowTimes(name, scope, k) ==
    IF k = 0 THEN name ELSE FollowTimes(Follow(name, scope), scope, k - 1)

\* Following the definitions from name leads back to name.
OnCycle(name, scope) ==
    \E k \in 1..Cardinality(DOMAIN scope) : FollowTimes(name, scope, k) = name

\* C9: a reference to a name on a cycle of aliases resolves to one cycle
\* leaf after each name of the cycle was visited once, the name is reported
\* unresolved and tracked, no token is found through it, and the call
\* returns its summary.
CyclesTerminate ==
    /\ Returned => result # <<>>
    /\ Resolved =>
          \A i \in 1..Len(foundPropValues) :
              LET d == foundPropValues[i]
                  names == VarOccurrences(d.value)
              IN \A k \in 1..Len(names) :
                    OnCycle(names[k], foundVariables) =>
                        LET leaves == d.resolutionTrace.attempts[k] IN
                        /\ Len(leaves) = 1
                        /\ leaves[1].kind = "cycle"
                        /\ leaves[1].name = names[k]
                        /\ Len(leaves[1].chain) <= Cardinality(DOMAIN foundVariables)
                        /\ Occurs(names[k], d.unresolvedVariables)
                        /\ ~Occurs(names[k], d.tokens)
                        /\ \E e \in 1..Len(tracker) :
                              /\ tracker[e].name = names[k]
                              /\ tracker[e].file = filePath
                              /\ tracker[e].descriptor = d.prop
                        /\ (Len(names) = 1 => ~d.containsDesignToken)

\* A summary was returned for a file that refers to a name on a cycle of two.
CycleReached ==
    /\ Returned
    /\ \E i \in 1..Len(result[1].foundPropValues) :
          LET names == VarOccurrences(result[1].foundPropValues[i].value)
          IN \E k \in 1..Len(names) :
                /\ OnCycle(names[k], foundVariables)
                /\ Follow(names[k], foundVariables) # names[k]

----------------------------------------------------------------------------
(* C10 *)

\* C10: the finding of a declaration is ignored exactly when the declaration
\* is excluded and contains no token; an excluded declaration that contains
\* a token is counted in designTokenCount, stays in the denominator of the
\* percentage and has a finding with isIgnored false and containsToken true.
IgnoredIffExcludedWithoutToken ==
    Returned =>
        LET r == result[1]
            decls == r.foundPropValues
            ignored == {i \in 1..Len(decls) : usageFindingsBuffer[i].isIgnored}
            withToken == {i \in 1..Len(decls) : decls[i].containsDesignToken}
            denominator == Len(decls) - Cardinality(ignored)
        IN /\ Len(usageFindingsBuffer) = Len(decls)
           /\ \A i \in 1..Len(decls) :
                 /\ usageFindingsBuffer[i].isIgnored
                        <=> (decls[i].isExcluded /\ ~decls[i].containsDesignToken)
                 /\ usageFindingsBuffer[i].containsToken = decls[i].containsDesignToken
                 /\ (decls[i].isExcluded /\ decls[i].containsDesignToken) =>
                        /\ i \in withToken
                        /\ i \notin ignored
                        /\ usageFindingsBuffer[i].containsToken
           /\ r.designTokenCount = Cardinality(withToken)
           /\ (r.percentage = -100) <=> (denominator = 0)
           /\ denominator # 0 =>
                 /\ 2 * (r.percentage * denominator
                            - 10000 * Cardinality(withToken)) <= denominator
                 /\ 2 * (10000 * Cardinality(withToken)
                            - r.percentage * denominator) < denominator

\* An excluded declaration that contains a token was returned next to a
\* declaration without one.
ExcludedWithTokenReached ==
    /\ Returned
    /\ \E i \in 1..Len(result[1].foundPropValues) :
          /\ result[1].foundPropValues[i].isExcluded
          /\ result[1].foundPropValues[i].containsDesignToken
          /\ ~usageFindingsBuffer[i].isIgnored
    /\ result[1].percentage = 5000

----------------------------------------------------------------------------
(* buildUsageAggregates called directly on a list of findings. *)

MaxFindings == 3

GivenPaths == { <<"project", "other", "page.css">>, <<"vendor", "reset.css">> }

\* What findings are made of: a declaration, and what resolution found in
\* it in the file it was met in.
FindingShapes ==
    { [descriptor |-> "color",
       value |-> <<"calc(">> \o Var("--a") \o <<"-", "4px", ")">>,
       tokens |-> <<"--tok">>, isIgnored |-> FALSE],
      [descriptor |-> "color",
       value |-> <<"calc(">> \o Var("--a") \o <<"-", "4px", ")">>,
       tokens |-> <<>>, isIgnored |-> TRUE],
      [descriptor |-> "color", value |-> Var("--a"),
       tokens |-> <<>>, isIgnored |-> FALSE],
      [descriptor |-> "border", value |-> Var("--a") \o Var("--a") \o Var("--b"),
       tokens |-> <<"--tok", "--tok", "--gap">>, isIgnored |-> FALSE],
      [descriptor |-> "border", value |-> <<"inherit">>,
       tokens |-> <<>>, isIgnored |-> TRUE],
      [descriptor |-> "border", value |-> Var("--b"),
       tokens |-> <<"--gap">>, isIgnored |-> FALSE] }

GivenFindings ==
    { [path |-> p, descriptor |-> shape.descriptor, value |-> shape.value,
       containsToken |-> shape.tokens # <<>>, isIgnored |-> shape.isIgnored,
       tokens |-> shape.tokens] : p \in GivenPaths, shape \in FindingShapes }

FindingLists == UNION {[1..n -> GivenFindings] : n \in 0..MaxFindings}

AggregateInit ==
    /\ givenFindings \in FindingLists
    /\ builtAggregates = <<>>
    /\ css = <<>>
    /\ pc = "unused"
    /\ filePath = <<>>
    /\ extQueue = <<>>
    /\ foundVariables = EmptyMap
    /\ root = <<>>
    /\ foundPropValues = <<>>
    /\ usageFindingsBuffer = <<>>
    /\ tracker = <<>>
    /\ pending = NoReports
    /\ disk = NoReports
    /\ result = <<>>
    /\ failure = <<>>
    /\ DriverUnused
    /\ PathUnused
    /\ ElementUnused

Aggregate ==
    /\ builtAggregates = <<>>
    /\ builtAggregates' = <<buildUsageAggregates(givenFindings)>>
    /\ UNCHANGED << givenFindings, callVars, driverVars, pathVars, elementVars >>

AggregateNext == Aggregate

AggregateSpec == AggregateInit /\ [][AggregateNext]_vars

Aggregated == builtAggregates # <<>>

byDescriptor == builtAggregates[1].descriptorValues.byDescriptor

byToken == builtAggregates[1].tokenUsage.byToken

\* The findings list in another order.
Reorderings(findings) ==
    {[i \in 1..Len(findings) |-> findings[p[i]]] :
        p \in Permutations(1..Len(findings))}

\* The ids an aggregate gives to its descriptors and values.
Ids(descriptors) ==
    [d \in DOMAIN descriptors |->
        [id |-> descriptors[d].id,
         values |-> [v \in DOMAIN descriptors[d].values |->
                        descriptors[d].values[v].id]]]

\* One finding for each (descriptor, value) pair of a list, stripped of
\* everything but the names.
RECURSIVE NamesOnly(_)
NamesOnly(findings) ==
    IF findings = <<>> THEN <<>>
    ELSE LET last == findings[Len(findings)]
             before == NamesOnly(SubSeq(findings, 1, Len(findings) - 1))
         IN IF \E i \in 1..Len(before) :
                   /\ before[i].descriptor = last.descriptor
                   /\ before[i].value = last.value
            THEN before
            ELSE Append(before,
                        [path |-> <<"project", "other", "page.css">>,
                         descriptor |-> last.descriptor, value |-> last.value,
                         containsToken |-> FALSE, isIgnored |-> FALSE,
                         tokens |-> <<>>])

----------------------------------------------------------------------------
(* C11 *)

\* C11: the ids buildUsageAggregates assigns do not depend on the order of
\* the findings: for every reordering of the list every descriptor and every
\* (descriptor, value) pair gets the id it got for the list itself, and so
\* does a list that has the same descriptor and value names only.
IdsAreOrderIndependent ==
    Aggregated =>
        \A reordered \in Reorderings(givenFindings) :
            /\ Ids(buildUsageAggregates(reordered).descriptorValues.byDescriptor)
                   = Ids(byDescriptor)
            /\ Ids(buildUsageAggregates(NamesOnly(reordered))
                       .descriptorValues.byDescriptor)
                   = Ids(byDescriptor)

\* Descriptors and values were met in another order than the sorted one.
DiscoveredOutOfOrderReached ==
    /\ Aggregated
    /\ DescriptorKeys(givenFindings, Len(givenFindings)) = <<"color", "border">>
    /\ ValueKeys(givenFindings, "color", Len(givenFindings))
           = << Var("--a"), <<"calc(">> \o Var("--a") \o <<"-", "4px", ")">> >>
    /\ byDescriptor["border"].id = String(0)
    /\ byDescriptor["color"].values[Var("--a")].id = String(4)

----------------------------------------------------------------------------
(* C12 *)

\* Key a comes before key b in lexicographic order.
Before(a, b) == StringLess(StringOf(a), StringOf(b))

\* The (descriptor, value) pairs of an aggregate.
Pairs(descriptors) ==
    {pair \in (DOMAIN descriptors)
              \X UNION {DOMAIN descriptors[e].values : e \in DOMAIN descriptors} :
        pair[2] \in DOMAIN descriptors[pair[1]].values}

\* The place of a descriptor in the walk: the descriptors and pairs visited
\* before it.
DescriptorPlace(descriptors, d) ==
    Cardinality({e \in DOMAIN descriptors : Before(<<e>>, <<d>>)})
    + Cardinality({pair \in Pairs(descriptors) : Before(<<pair[1]>>, <<d>>)})

\* The place of a value: after its descriptor and that descriptor's smaller
\* values.
ValuePlace(descriptors, d, v) ==
    DescriptorPlace(descriptors, d) + 1
    + Cardinality({w \in DOMAIN descriptors[d].values : Before(w, v)})

\* Every id handed out, once for each descriptor or pair holding it.
IdHolders(descriptors) ==
    {<<"descriptor", d, descriptors[d].id>> : d \in DOMAIN descriptors}
    \cup {<<"value", pair, descriptors[pair[1]].values[pair[2]].id>> :
             pair \in Pairs(descriptors)}

\* C12: ids come from one counter starting at 0: walking the descriptors in
\* lexicographic order, a descriptor takes the next integer as a string and
\* then its values, in lexicographic order, take the following ones; the ids
\* are pairwise distinct and are exactly the strings of
\* 0 .. descriptors + pairs - 1.
IdsComeFromOneCounter ==
    Aggregated =>
        LET holders == IdHolders(byDescriptor)
            size == Cardinality(DOMAIN byDescriptor)
                    + Cardinality(Pairs(byDescriptor))
        IN /\ \A d \in DOMAIN byDescriptor :
                 /\ byDescriptor[d].id = String(DescriptorPlace(byDescriptor, d))
                 /\ \A v \in DOMAIN byDescriptor[d].values :
                       byDescriptor[d].values[v].id
                           = String(ValuePlace(byDescriptor, d, v))
           /\ \A g, h \in holders : g # h => g[3] # h[3]
           /\ {h[3] : h \in holders} = {String(n) : n \in 0..(size - 1)}

\* Two descriptors with values of their own, the second descriptor numbered
\* after the values of the first.
SharedCounterReached ==
    /\ Aggregated
    /\ DOMAIN byDescriptor = {"border", "color"}
    /\ Cardinality(DOMAIN byDescriptor["border"].values) = 2
    /\ byDescriptor["color"].id = String(3)
    /\ \E v \in DOMAIN byDescriptor["color"].values :
          byDescriptor["color"].values[v].id = String(4)

----------------------------------------------------------------------------
(* C13 *)

\* The sum of the counts of a map.
RECURSIVE Sum(_)
Sum(counts) ==
    IF DOMAIN counts = {} THEN 0
    ELSE LET key == CHOOSE k \in DOMAIN counts : TRUE
         IN counts[key] + Sum([k \in (DOMAIN counts) \ {key} |-> counts[k]])

\* The occurrences of a token in the tokens lists of the given findings.
GivenOccurrences(token) ==
    {<<i, j>> \in (1..Len(givenFindings)) \X (1..3) :
        /\ j <= Len(givenFindings[i].tokens)
        /\ givenFindings[i].tokens[j] = token}

\* C13: for every token of the token-usage aggregate, total is the number of
\* its occurrences in the tokens lists of all findings and is the sum of its
\* per-descriptor counts and of its per-file counts; a name in no tokens list
\* has no entry.
TokenTotalsAddUp ==
    Aggregated =>
        /\ \A token \in DOMAIN byToken :
              /\ byToken[token].total = Cardinality(GivenOccurrences(token))
              /\ byToken[token].total = Sum(byToken[token].descriptors)
              /\ byToken[token].total = Sum(byToken[token].files)
        /\ \A name \in CustomProperties :
              GivenOccurrences(name) = {} => name \notin DOMAIN byToken

\* A token met twice in one finding and again in another file and descriptor.
TokenAcrossFindingsReached ==
    /\ Aggregated
    /\ DOMAIN byToken = {"--tok", "--gap"}
    /\ byToken["--tok"].total = 3
    /\ Cardinality(DOMAIN byToken["--tok"].files) = 2
    /\ Cardinality(DOMAIN byToken["--tok"].descriptors) = 2

----------------------------------------------------------------------------
(* C14 *)

\* The given findings of a (descriptor, value) pair.
FindingsOf(d, v) ==
    {i \in 1..Len(givenFindings) :
        givenFindings[i].descriptor = d /\ givenFindings[i].value = v}

\* C14: isIgnored of a (descriptor, value) bucket is true exactly when some
\* finding of the pair is ignored, wherever it stands in the list, and the
\* bucket's count is the number of findings of the pair and the sum of its
\* per-file counts.
IsIgnoredIsSticky ==
    Aggregated =>
        \A d \in DOMAIN byDescriptor : \A v \in DOMAIN byDescriptor[d].values :
            LET bucket == byDescriptor[d].values[v]
            IN /\ bucket.isIgnored
                      <=> \E i \in FindingsOf(d, v) : givenFindings[i].isIgnored
               /\ bucket.count = Cardinality(FindingsOf(d, v))
               /\ bucket.count = Sum(bucket.files)

\* An ignored finding of a pair followed by one that is not ignored.
IgnoredThenNotIgnoredReached ==
    /\ Aggregated
    /\ \E i, j \in 1..Len(givenFindings) :
          /\ i < j
          /\ givenFindings[i].descriptor = givenFindings[j].descriptor
          /\ givenFindings[i].value = givenFindings[j].value
          /\ givenFindings[i].isIgnored
          /\ ~givenFindings[j].isIgnored
          /\ byDescriptor[givenFindings[i].descriptor]
                 .values[givenFindings[i].value].isIgnored

----------------------------------------------------------------------------
(* C15 *)

\* C15: a (descriptor, value) bucket carries a tokens list whenever some
\* finding of the pair carried tokens.
BucketCarriesTokensOfAnyFinding ==
    Aggregated =>
        \A d \in DOMAIN byDescriptor : \A v \in DOMAIN byDescriptor[d].values :
            (\E i \in FindingsOf(d, v) : givenFindings[i].tokens # <<>>)
                => byDescriptor[d].values[v].tokens # <<>>

----------------------------------------------------------------------------
(* A driver analysing several files in one process: getPropagationData      *)
(* calls, overlapping or not, over the module-level buffer and tracker.     *)

MaxCalls == 2

MaxRuns == 2

CallIds == 1..MaxCalls

\* The analysed files on disk.
RunFiles ==
    [p \in AnalysedPaths |->
        IF p = <<"project", "other", "page.css">>
        THEN << Rule(".btn",
                     << Decl("color", <<"calc(">> \o Var("--a") \o <<"-", "4px", ")">>),
                        Decl("border", Var("--b")) >>) >>
        ELSE IF p = <<"project", "widgets", "button.css">>
        THEN << Rule(".btn",
                     << Decl("color", <<"calc(">> \o Var("--a") \o <<"-", "4px", ")">>),
                        Decl("border", Var("--tok") \o Var("--tok")) >>) >>
        ELSE ExternalFiles[p]]

\* collectExternalVars: the loop over the mapped external files.
RECURSIVE CollectExternalsFrom(_, _)
CollectExternalsFrom(queue, acc) ==
    IF queue = <<>> THEN acc
    ELSE LET externalAbsPath == ResolveExternal(Head(queue))
             extVars == IF externalAbsPath \in DOMAIN ExternalFiles
                        THEN getExternalVars(ExternalFiles[externalAbsPath],
                                             externalAbsPath)
                        ELSE EmptyMap
         IN CollectExternalsFrom(Tail(queue), Spread(acc, extVars))

collectExternalVars(path) == CollectExternalsFrom(ExternalsFrom(path, 1), EmptyMap)

\* A call the driver has not made yet.  pushed and tracked are the places
\* of the call's findings in the buffer and of its entries in the tracker.
IdleCall ==
    [pc |-> "idle", filePath |-> <<>>, run |-> 0, pending |-> NoReports,
     pushed |-> <<1, 0>>, tracked |-> <<1, 0>>, result |-> <<>>]

RunInit ==
    /\ calls = [c \in CallIds |-> IdleCall]
    /\ run = 1
    /\ usageFindingsBuffer = <<>>
    /\ tracker = <<>>
    /\ disk = NoReports
    /\ css = <<>>
    /\ pc = "unused"
    /\ filePath = <<>>
    /\ extQueue = <<>>
    /\ foundVariables = EmptyMap
    /\ root = <<>>
    /\ foundPropValues = <<>>
    /\ pending = NoReports
    /\ result = <<>>
    /\ failure = <<>>
    /\ AggregatorUnused
    /\ PathUnused
    /\ ElementUnused

unusedVars == << css, pc, filePath, extQueue, foundVariables, root,
                 foundPropValues, pending, result, failure, aggregatorVars,
                 pathVars, elementVars >>

\* The driver calls getPropagationData(path); the call runs to its first await.
Begin(c, path) ==
    /\ calls[c].pc = "idle"
    /\ \A b \in 1..(c - 1) : calls[b].pc # "idle"
    /\ calls' = [calls EXCEPT ![c] =
                    [IdleCall EXCEPT !.pc = "parse", !.filePath = path, !.run = run]]
    /\ UNCHANGED << run, usageFindingsBuffer, tracker, disk, unusedVars >>

\* collectExternalVars and parseCSS settled: the call runs collectDeclarations
\* and resolveDeclarationReferences up to the await of fs.mkdir.
RunResolve(c) ==
    /\ calls[c].pc = "parse"
    /\ LET path == calls[c].filePath
           collected == collectDeclarations(RunFiles[path],
                                            collectExternalVars(path), path)
           resolved  == ResolveFrom(collected.declarations, 1,
                            collected.foundVariables, path,
                            [declarations |-> <<>>, tracker |-> tracker,
                             buffer |-> usageFindingsBuffer])
           built == buildUsageAggregates(resolved.buffer)
       IN /\ tracker' = resolved.tracker
          /\ usageFindingsBuffer' = resolved.buffer
          /\ calls' = [calls EXCEPT ![c] =
                [@ EXCEPT
                    !.pc = "mkdir",
                    !.pending = [unresolvedVars |-> <<toReport(resolved.tracker)>>,
                                 tokenUsage |-> <<built.tokenUsage>>,
                                 descriptorValues |-> <<built.descriptorValues>>],
                    !.pushed = <<Len(usageFindingsBuffer) + 1, Len(resolved.buffer)>>,
                    !.tracked = <<Len(tracker) + 1, Len(resolved.tracker)>>,
                    !.result = <<Summary(resolved.declarations,
                                         collected.foundVariables)>>]]
    /\ UNCHANGED << run, disk, unusedVars >>

\* fs.mkdir resolved; the call issues its three writes.
RunMkdir(c) ==
    /\ calls[c].pc = "mkdir"
    /\ calls' = [calls EXCEPT ![c].pc = "write"]
    /\ UNCHANGED << run, usageFindingsBuffer, tracker, disk, unusedVars >>

\* The writes of the call reached the disk and the call returns.
RunWrite(c) ==
    /\ calls[c].pc = "write"
    /\ disk' = calls[c].pending
    /\ calls' = [calls EXCEPT ![c].pc = "done"]
    /\ UNCHANGED << run, usageFindingsBuffer, tracker, unusedVars >>

\* An awaited operation of the call rejected and the call rethrows.
RunThrow(c) ==
    /\ calls[c].pc \in {"parse", "mkdir", "write"}
    /\ \E written \in SUBSET ReportNames :
          /\ written # ReportNames
          /\ calls[c].pc # "write" => written = {}
          /\ disk' = [r \in ReportNames |->
                         IF r \in written THEN calls[c].pending[r] ELSE disk[r]]
    /\ calls' = [calls EXCEPT ![c] = [@ EXCEPT !.pc = "failed", !.result = <<>>]]
    /\ UNCHANGED << run, usageFindingsBuffer, tracker, unusedVars >>

\* The driver starts another run in the same process.  The module exports
\* nothing that touches its buffer or its tracker.
StartRun ==
    /\ run < MaxRuns
    /\ \E c \in CallIds : calls[c].pc # "idle"
    /\ \E c \in CallIds : calls[c].pc = "idle"
    /\ \A c \in CallIds : calls[c].pc \in {"idle", "done", "failed"}
    /\ run' = run + 1
    /\ UNCHANGED << calls, usageFindingsBuffer, tracker, disk, unusedVars >>

RunNext ==
    \/ \E c \in CallIds, path \in AnalysedPaths : Begin(c, path)
    \/ \E c \in CallIds : RunResolve(c)
    \/ \E c \in CallIds : RunMkdir(c)
    \/ \E c \in CallIds : RunWrite(c)
    \/ \E c \in CallIds : RunThrow(c)
    \/ StartRun

RunSpec == RunInit /\ [][RunNext]_vars

\* The call has run its resolution loop and built its reports.
HasResolved(c) == calls[c].pending # NoReports

\* The elements of a sequence at the positions kept, in order.
RECURSIVE Pick(_, _, _)
Pick(seq, keep, k) ==
    IF k > Len(seq) THEN <<>>
    ELSE (IF k \in keep THEN <<seq[k]>> ELSE <<>>) \o Pick(seq, keep, k + 1)

\* The places, up to last, of what the calls of run r put in the buffer and
\* in the tracker.
PushedInRun(r, last) ==
    {i \in 1..last : \E c \in CallIds :
        calls[c].run = r /\ calls[c].pushed[1] <= i /\ i <= calls[c].pushed[2]}

TrackedInRun(r, last) ==
    {i \in 1..last : \E c \in CallIds :
        calls[c].run = r /\ calls[c].tracked[1] <= i /\ i <= calls[c].tracked[2]}

\* The reports resolveDeclarationReferences builds from a buffer and a tracker.
ReportsOf(findings, entries) ==
    [unresolvedVars |-> <<toReport(entries)>>,
     tokenUsage |-> <<buildUsageAggregates(findings).tokenUsage>>,
     descriptorValues |-> <<buildUsageAggregates(findings).descriptorValues>>]

----------------------------------------------------------------------------
(* C16 *)

\* C16: the buffer and the tracker are scoped to one run: the reports a call
\* builds hold the contributions of the files analysed in its own run up to
\* that call and of no other run, so that analysing a file first in two
\* successive runs gives the same reports in both.
ReportsHoldOneRunOnly ==
    (\A b \in CallIds : calls[b].pc # "failed") =>
    /\ \A c \in CallIds :
          HasResolved(c) =>
              calls[c].pending
                  = ReportsOf(
                        Pick(usageFindingsBuffer,
                             PushedInRun(calls[c].run, calls[c].pushed[2]), 1),
                        Pick(tracker,
                             TrackedInRun(calls[c].run, calls[c].tracked[2]), 1))
    /\ \A c, d \in CallIds :
          /\ HasResolved(c) /\ HasResolved(d)
          /\ calls[c].run # calls[d].run
          /\ calls[c].filePath = calls[d].filePath
          /\ \A b \in CallIds \ {c, d} : ~HasResolved(b)
          => calls[c].pending = calls[d].pending

----------------------------------------------------------------------------
(* C17 *)

\* C17: once every call the driver made in a run has returned, the reports
\* last written hold the contributions of every analysed file: they are the
\* reports of the whole buffer and tracker.
LastWrittenReportsAreComplete ==
    ( /\ \E c \in CallIds : calls[c].pc = "done"
      /\ \A c \in CallIds : calls[c].pc \in {"idle", "done"}
      /\ \A c \in CallIds : calls[c].run \in {0, 1} )
        => disk = ReportsOf(usageFindingsBuffer, tracker)

----------------------------------------------------------------------------
(* C18 *)

\* The call failed while reading or parsing its file.
FailedToParse ==
    /\ pc = "failed"
    /\ failure[1].cause \in Rejections("parse", filePath)

\* C18: when reading or parsing the file fails the call raises an error and
\* returns no summary, and the error raised carries the path of the file and
\* the message of the underlying error.
ParseFailureRaisesPathAndMessage ==
    FailedToParse =>
        /\ result = <<>>
        /\ failure[1].raised.message.text[3] = failure[1].cause.text
        /\ filePath \in failure[1].raised.message.mentions

----------------------------------------------------------------------------
(* normalizePathForOutput called directly. *)

MaxDepth == 3

PathSegments == {"project", "other", "page.css", "..", "..cache"}

\* The arguments: absolute paths, the empty string, undefined, null and a
\* number.
GivenPathValues ==
    {Str(TRUE, segments) :
        segments \in UNION {[1..n -> PathSegments] : n \in 0..MaxDepth}}
    \cup {Str(FALSE, <<>>)}
    \cup {NonString(type) : type \in {"undefined", "object", "number"}}

PathInit ==
    /\ givenPath \in GivenPathValues
    /\ normalized = <<>>
    /\ css = <<>>
    /\ pc = "unused"
    /\ filePath = <<>>
    /\ extQueue = <<>>
    /\ foundVariables = EmptyMap
    /\ root = <<>>
    /\ foundPropValues = <<>>
    /\ usageFindingsBuffer = <<>>
    /\ tracker = <<>>
    /\ pending = NoReports
    /\ disk = NoReports
    /\ result = <<>>
    /\ failure = <<>>
    /\ AggregatorUnused
    /\ DriverUnused
    /\ ElementUnused

\* The call: path.relative returns, or throws when the argument reaches it.
NormalizePath ==
    /\ normalized = <<>>
    /\ \E relativised \in
            { PathRelative(PathString(repoPath), givenPath),
              [threw |-> TRUE, value |-> NonString("undefined")] } :
          normalized' =
              <<[relativeThrew |-> relativised.threw /\ givenPath.type = "string"
                                   /\ givenPath # Str(FALSE, <<>>),
                 value |-> NormalizeGiven(givenPath, relativised)]>>
    /\ UNCHANGED << givenPath, callVars, aggregatorVars, driverVars,
                    elementVars >>

PathNext == NormalizePath

PathSpec == PathInit /\ [][PathNext]_vars

----------------------------------------------------------------------------
(* C19 *)

\* The argument is an absolute path below the repository root.
UnderRoot(string) ==
    /\ string.type = "string" /\ string.absolute
    /\ IsPrefix(repoPath, PathResolve(string))
    /\ Len(PathResolve(string)) > Len(repoPath)

\* The argument is an absolute path that is neither the root nor below it.
OutsideRoot(string) ==
    /\ string.type = "string" /\ string.absolute
    /\ ~IsPrefix(repoPath, PathResolve(string))

\* C19: normalizePathForOutput returns the path relative to the repository
\* root, without a leading separator, for every absolute path below the
\* root, and returns its argument when the path is outside the root, is not
\* a string, or path.relative throws.
NormalizesExactlyUnderRoot ==
    normalized # <<>> =>
        /\ (UnderRoot(givenPath) /\ ~normalized[1].relativeThrew)
               => normalized[1].value
                      = Str(FALSE, SubSeq(PathResolve(givenPath), Len(repoPath) + 1,
                                          Len(PathResolve(givenPath))))
        /\ (\/ OutsideRoot(givenPath)
            \/ givenPath.type # "string"
            \/ normalized[1].relativeThrew)
               => normalized[1].value = givenPath

----------------------------------------------------------------------------
(* NonTokenValuesElement (src/content/js/NonTokenValues.js): the controls   *)
(* of the component and the URL they are kept in.  Here a string is the     *)
(* sequence of its characters; null is <<>> and a value v is <<v>>.         *)

MaxEntries == 2

MAX_LEN == 64

OPEN_PARAM == "o"

\* The data-details-key values of the rows.
DetailKeys == { <<"d", "1">>, <<"d", "2">> }

\* String.prototype.trim
RECURSIVE TrimStart(_)
TrimStart(text) ==
    IF text # <<>> /\ Head(text) = " " THEN TrimStart(Tail(text)) ELSE text

RECURSIVE TrimEnd(_)
TrimEnd(text) ==
    IF text # <<>> /\ text[Len(text)] = " "
    THEN TrimEnd(SubSeq(text, 1, Len(text) - 1)) ELSE text

Trim(text) == TrimEnd(TrimStart(text))

\* The characters of the model that ALLOWED_BASE_RE accepts.
AllowedBase == {"a", "d", " ", "1", "2", "0", ","}

validatePattern(pattern) ==
    LET p == Trim(pattern)
        asteriskCount == Cardinality({i \in 1..Len(p) : p[i] = "*"})
        hasWildcard == asteriskCount = 1
        base == IF hasWildcard THEN SubSeq(p, 1, Len(p) - 1) ELSE p
    IN IF Len(p) = 0
       THEN [ok |-> FALSE, message |-> "Pattern cannot be empty."]
       ELSE IF Len(p) > MAX_LEN
       THEN [ok |-> FALSE, message |-> "Pattern is too long, max 64 characters."]
       ELSE IF p = <<"*">> THEN [ok |-> TRUE, message |-> ""]
       ELSE IF asteriskCount > 1
       THEN [ok |-> FALSE, message |-> "Only one wildcard \"*\" is allowed."]
       ELSE IF hasWildcard /\ p[Len(p)] # "*"
       THEN [ok |-> FALSE, message |-> "Wildcard \"*\" is only supported at the end."]
       ELSE IF hasWildcard /\ Len(base) = 0
       THEN [ok |-> FALSE, message |-> "Prefix is required before the wildcard \"*\"."]
       ELSE IF \E i \in 1..Len(base) : base[i] \notin AllowedBase
       THEN [ok |-> FALSE, message |-> "Pattern contains disallowed characters."]
       ELSE [ok |-> TRUE, message |-> ""]

\* URLSearchParams: the query string maps the names it has to their values
\* in application/x-www-form-urlencoded form.
EncodeChar(c) ==
    CASE c = " " -> "+"
      [] c = "<" -> "%3C"
      [] c = "," -> "%2C"
      [] OTHER   -> c

DecodeChar(c) ==
    CASE c = "+"   -> " "
      [] c = "%3C" -> "<"
      [] c = "%2C" -> ","
      [] OTHER     -> c

Encode(text) == [i \in 1..Len(text) |-> EncodeChar(text[i])]

Decode(text) == [i \in 1..Len(text) |-> DecodeChar(text[i])]

ParamsGet(search, name) ==
    IF name \in DOMAIN search THEN <<Decode(search[name])>> ELSE <<>>

ParamsSet(search, name, value) == Put(search, name, Encode(value))

ParamsDelete(search, name) == [n \in (DOMAIN search) \ {name} |-> search[n]]

\* Array.prototype.join(',') of a list of strings.
RECURSIVE Join(_)
Join(keys) ==
    IF keys = <<>> THEN <<>>
    ELSE IF Len(keys) = 1 THEN keys[1]
    ELSE keys[1] \o <<",">> \o Join(Tail(keys))

\* String.prototype.split(',')
RECURSIVE Split(_)
Split(text) ==
    LET commas == {i \in 1..Len(text) : text[i] = ","}
    IN IF commas = {} THEN <<text>>
       ELSE LET first == CHOOSE i \in commas : \A j \in commas : i <= j
            IN <<SubSeq(text, 1, first - 1)>>
               \o Split(SubSeq(text, first + 1, Len(text)))

readControlsFromURL(search) ==
    LET got  == ParamsGet(search, "pattern")
        pattern == IF got = <<>> \/ got[1] = <<>> THEN <<"*">> ELSE got[1]
        open == ParamsGet(search, OPEN_PARAM)
    IN [pattern |-> IF validatePattern(pattern).ok THEN pattern ELSE <<"*">>,
        excludeIgnored |-> ParamsGet(search, "ex") = << <<"1">> >>,
        openDetails |-> IF open = <<>> THEN <<>> ELSE Split(open[1])]

\* The loose comparisons of _writeStateToURL: params.get() gives null or a
\* string; null differs from every string and from every boolean, a string
\* is compared with a boolean through the numbers both convert to.
LooselyEqualString(current, string) == current # <<>> /\ current[1] = string

LooselyEqualBoolean(current, boolean) ==
    /\ current # <<>>
    /\ IF boolean THEN Trim(current[1]) = <<"1">>
       ELSE Trim(current[1]) \in { <<"0">>, <<>> }

\* _writeStateToURL: the element it leaves, the query string of the URL it
\* hands to the history, and the history method it calls.
writeStateToURL(el, search, replace) ==
    LET currentPattern == ParamsGet(search, "pattern")
        currentExcludeIgnored == ParamsGet(search, "ex")
        changed == \/ ~LooselyEqualString(currentPattern, el.pattern)
                   \/ ~LooselyEqualBoolean(currentExcludeIgnored, el.excludeIgnored)
        params ==
            IF changed
            THEN ParamsDelete(
                     ParamsSet(ParamsSet(search, "pattern", el.pattern), "ex",
                               IF el.excludeIgnored THEN <<"1">> ELSE <<"0">>),
                     OPEN_PARAM)
            ELSE IF Len(el.openDetails) > 0
            THEN ParamsSet(search, OPEN_PARAM, Join(el.openDetails))
            ELSE ParamsDelete(search, OPEN_PARAM)
    IN [element |-> IF changed THEN [el EXCEPT !.openDetails = <<>>] ELSE el,
        search |-> params,
        method |-> IF replace THEN "replaceState" ELSE "pushState"]

\* Array.from(new Set(keys)): the first occurrence of each key, in order.
RECURSIVE ArrayFromSet(_)
ArrayFromSet(keys) ==
    IF keys = <<>> THEN <<>>
    ELSE LET front == ArrayFromSet(SubSeq(keys, 1, Len(keys) - 1))
             last == keys[Len(keys)]
         IN IF \E i \in 1..Len(front) : front[i] = last THEN front
            ELSE Append(front, last)

\* The query strings a page with the component is opened with.
SearchOf(pattern, ex, open) ==
    LET given == [n \in {"pattern", "ex", OPEN_PARAM} |->
                     CASE n = "pattern" -> pattern [] n = "ex" -> ex [] OTHER -> open]
    IN [n \in {m \in DOMAIN given : given[m] # <<>>} |-> Encode(given[n][1])]

InitialSearches ==
    { SearchOf(<<>>, <<>>, <<>>),
      SearchOf(<<>>, <<>>, << <<"d", "1", ",", "d", "2">> >>),
      SearchOf(<< <<"*">> >>, << <<"0">> >>, <<>>),
      SearchOf(<< <<"*">> >>, << <<"0">> >>, << <<"d", "1">> >>),
      SearchOf(<< <<"a", "*">> >>, << <<"1">> >>, << <<"d", "2">> >>),
      SearchOf(<< <<"a", "*">> >>, << <<"t", "r", "u", "e">> >>, << <<"d", "2">> >>),
      SearchOf(<< <<"<">> >>, << <<"0">> >>, << <<"d", "1">> >>),
      SearchOf(<< <<>> >>, << <<>> >>, << <<"d", "1", ",", "d", "1">> >>) }

\* The values typed into the pattern field.
TypedPatterns ==
    { <<>>, <<"*">>, <<"a", "*">>, <<" ", "a">>, <<"*", "a">>, <<"<">> }

\* The constructor: the controls are read from the URL the page has.
ElementInit ==
    /\ \E search \in InitialSearches :
          /\ window = [search |-> search, entries |-> <<search>>, index |-> 1,
                       lastCall |-> "none"]
          /\ element = readControlsFromURL(search)
    /\ loads = <<>>
    /\ rendered = <<>>
    /\ css = <<>>
    /\ pc = "unused"
    /\ filePath = <<>>
    /\ extQueue = <<>>
    /\ foundVariables = EmptyMap
    /\ root = <<>>
    /\ foundPropValues = <<>>
    /\ usageFindingsBuffer = <<>>
    /\ tracker = <<>>
    /\ pending = NoReports
    /\ disk = NoReports
    /\ result = <<>>
    /\ failure = <<>>
    /\ AggregatorUnused
    /\ DriverUnused
    /\ PathUnused

\* history.pushState adds an entry after the current one and drops the
\* entries that were ahead of it; history.replaceState rewrites the current
\* entry.  Both leave location.search at the URL they were given.
HistoryCall(method, search) ==
    IF method = "replaceState"
    THEN [window EXCEPT !.search = search, !.entries[window.index] = search,
                        !.lastCall = method]
    ELSE [search |-> search,
          entries |-> Append(SubSeq(window.entries, 1, window.index), search),
          index |-> window.index + 1,
          lastCall |-> method]

\* The element el (this, with the assignments the caller made) runs
\* _writeStateToURL({ replace }).
Written(el, replace) ==
    LET write == writeStateToURL(el, window.search, replace)
    IN /\ replace \/ window.index < MaxEntries
       /\ element' = write.element
       /\ window' = HistoryCall(write.method, write.search)

\* A direct call of _writeStateToURL({ replace }).
WriteStateToURL(replace) ==
    /\ Written(element, replace)
    /\ UNCHANGED << callVars, aggregatorVars, driverVars, pathVars, loads, rendered >>

\* _onToggleDetails: the toggle event of a <details> element.
OnToggleDetails(newKey, open) ==
    LET openSet == ArrayFromSet(element.openDetails)
        updatedOpenDetails ==
            IF open
            THEN ArrayFromSet(Append(openSet, newKey))
            ELSE SelectSeq(openSet, LAMBDA key : key # newKey)
    IN /\ Written([element EXCEPT !.openDetails = updatedOpenDetails], FALSE)
       /\ UNCHANGED << callVars, aggregatorVars, driverVars, pathVars, loads, rendered >>

\* _onPatternInput: the input event of the pattern field.
OnPatternInput(value) ==
    LET typed == [element EXCEPT !.pattern = Trim(value)]
    IN /\ IF validatePattern(typed.pattern).ok
          THEN Written(typed, FALSE)
          ELSE element' = typed /\ UNCHANGED window
       /\ UNCHANGED << callVars, aggregatorVars, driverVars, pathVars, loads, rendered >>

\* _onExcludeToggle: the change event of the checkbox.
OnExcludeToggle(checked) ==
    /\ Written([element EXCEPT !.excludeIgnored = checked], FALSE)
    /\ UNCHANGED << callVars, aggregatorVars, driverVars, pathVars, loads, rendered >>

\* The user goes back or forward to another history entry; the popstate
\* listener re-reads the controls.
OnPopState(entry) ==
    /\ entry \in 1..Len(window.entries)
    /\ entry # window.index
    /\ window' = [window EXCEPT !.search = window.entries[entry], !.index = entry]
    /\ LET next == readControlsFromURL(window.entries[entry])
       IN element' = [element EXCEPT !.pattern = next.pattern,
                                     !.openDetails = next.openDetails,
                                     !.excludeIgnored = next.excludeIgnored]
    /\ UNCHANGED << callVars, aggregatorVars, driverVars, pathVars, loads, rendered >>

ElementNext ==
    \/ \E replace \in BOOLEAN : WriteStateToURL(replace)
    \/ \E newKey \in DetailKeys, open \in BOOLEAN : OnToggleDetails(newKey, open)
    \/ \E value \in TypedPatterns : OnPatternInput(value)
    \/ \E checked \in BOOLEAN : OnExcludeToggle(checked)
    \/ \E entry \in 1..MaxEntries : OnPopState(entry)

ElementSpec == ElementInit /\ [][ElementNext]_vars

----------------------------------------------------------------------------
(* C20: a call of _writeStateToURL({ replace }).  When the pattern and the  *)
(* exclude-ignored flag that _readControlsFromURL reads from the current    *)
(* URL equal the element's pattern and excludeIgnored, openDetails is left  *)
(* unchanged and the 'o' parameter holds it joined (no 'o' parameter when   *)
(* it is empty); when either differs, 'pattern' and 'ex' are written, 'o'   *)
(* is removed and openDetails becomes [].  The history method called is     *)
(* replaceState when replace is true and pushState otherwise.               *)
WriteStateToURLContract ==
    [][\A replace \in BOOLEAN :
          WriteStateToURL(replace) =>
              LET read == readControlsFromURL(window.search)
                  same == /\ read.pattern = element.pattern
                          /\ read.excludeIgnored = element.excludeIgnored
              IN /\ same =>
                     /\ element'.openDetails = element.openDetails
                     /\ ParamsGet(window'.search, OPEN_PARAM) =
                            IF element.openDetails = <<>> THEN <<>>
                            ELSE <<Join(element.openDetails)>>
                 /\ ~same =>
                     /\ ParamsGet(window'.search, "pattern") = <<element.pattern>>
                     /\ ParamsGet(window'.search, "ex") =
                            <<IF element.excludeIgnored THEN <<"1">> ELSE <<"0">> >>
                     /\ OPEN_PARAM \notin DOMAIN window'.search
                     /\ element'.openDetails = <<>>
                 /\ window'.lastCall =
                        IF replace THEN "replaceState" ELSE "pushState"]_vars

----------------------------------------------------------------------------
\* How often a key occurs in a list of keys.
Occurrences(keys, key) == Cardinality({i \in 1..Len(keys) : keys[i] = key})

(* C21: a toggle event handled by _onToggleDetails, whatever the query      *)
(* string and openDetails were.  From an open <details> element: its key    *)
(* is in openDetails exactly once afterwards.  From a closed one: its key   *)
(* is absent afterwards.  Every other key that was in openDetails is still  *)
(* there, and the event made one history call that wrote the state.         *)
ToggleDetailsContract ==
    [][\A newKey \in DetailKeys, open \in BOOLEAN :
          OnToggleDetails(newKey, open) =>
              /\ open => Occurrences(element'.openDetails, newKey) = 1
              /\ ~open => Occurrences(element'.openDetails, newKey) = 0
              /\ \A i \in 1..Len(element.openDetails) :
                    element.openDetails[i] # newKey =>
                        Occurrences(element'.openDetails, element.openDetails[i]) > 0
              /\ window'.lastCall = "pushState"
              /\ window'.index = window.index + 1
              /\ window'.entries[window'.index] = window'.search]_vars

----------------------------------------------------------------------------
(* NonTokenValuesElement: loading ../data/descriptorValues.json.  null is   *)
(* <<>> and a value v is <<v>>, as before.                                  *)

MaxLoads == 2

\* One value of a descriptor in descriptorValues.json; count is <<n>> when
\* it is the number n and <<>> when it is no number.
ValObj(count, containsToken, isIgnored, id) ==
    [count |-> count, containsToken |-> containsToken, isIgnored |-> isIgnored,
     id |-> id, files |-> [path \in {"a.css"} |-> 1]]

\* The contents descriptorValues.json can have.
Payloads ==
    { [byDescriptor |-> <<
          [d \in { <<"a">>, <<"a", "a">>, <<"d">> } |->
              [values |->
                  CASE d = <<"a">> ->
                         [v \in { <<"1">>, <<"2">> } |->
                             IF v = <<"1">> THEN ValObj(<<2>>, FALSE, FALSE, <<"0">>)
                             ELSE ValObj(<<1>>, TRUE, FALSE, <<"1">>)]
                    [] d = <<"a", "a">> ->
                         [v \in { <<"1">> } |-> ValObj(<<2>>, FALSE, TRUE, <<"2">>)]
                    [] OTHER ->
                         [v \in { <<"1">> } |-> ValObj(<<>>, FALSE, FALSE, <<"3">>)]]] >>],
      [byDescriptor |-> <<
          [d \in { <<"d">> } |->
              [values |-> [v \in { <<"2">> } |-> ValObj(<<3>>, FALSE, TRUE, <<"0">>)]]] >>],
      [byDescriptor |-> <<>>] }

\* What fetch() settles with: a Response (ok or not, whose json() gives the
\* payload or rejects), a plain object of a test double, nothing, or a
\* rejection.
Responses ==
    {[kind |-> "response", ok |-> TRUE, status |-> "200", json |-> <<payload>>] :
        payload \in Payloads}
    \cup {[kind |-> "response", ok |-> FALSE, status |-> status, json |-> <<>>] :
            status \in {"404", "500"}}
    \cup {[kind |-> "response", ok |-> TRUE, status |-> "200", json |-> <<>>],
          [kind |-> "null"],
          [kind |-> "rejected", message |-> "Failed to fetch"]}
    \cup {[kind |-> "object", value |-> payload] : payload \in Payloads}

Fulfilled(value) == [state |-> "fulfilled", value |-> value]

Rejected(message) == [state |-> "rejected", message |-> message]

\* #fetchData: what its promise settles with for a settled fetch().
fetchData(res) ==
    CASE res.kind = "rejected" -> Rejected(res.message)
      [] res.kind = "null" ->
            Rejected("Failed to fetch descriptorValues.json, status unknown")
      [] res.kind = "response" /\ ~res.ok ->
            Rejected("Failed to fetch descriptorValues.json, status " \o res.status)
      [] res.kind = "response" /\ res.ok ->
            IF res.json = <<>> THEN Rejected("Unexpected end of JSON input")
            ELSE Fulfilled(res.json[1])
      [] OTHER -> Fulfilled(res.value)

\* A #load call that has not begun to wait.
NewLoad == [pc |-> "awaiting", fetched |-> <<>>, timer |-> "pending"]

\* #minDuration: Promise.all of the #fetchData promise and the timer is
\* rejected as soon as #fetchData is, and fulfilled when both are.
minDuration(load) ==
    IF load.fetched = <<>> THEN <<>>
    ELSE IF load.fetched[1].state = "rejected" THEN load.fetched
    ELSE IF load.timer = "fired" THEN load.fetched
    ELSE <<>>

\* #load without its finally block.
ResumedWithoutFinally(el, settled) ==
    IF settled.state = "fulfilled"
    THEN [el EXCEPT !.data = <<settled.value>>]
    ELSE [el EXCEPT !.data = <<>>, !.error = <<settled.message>>]

\* #load after its await: try, catch and finally.
Resumed(el, settled) ==
    IF settled.state = "fulfilled"
    THEN [el EXCEPT !.data = <<settled.value>>, !.loading = FALSE]
    ELSE [el EXCEPT !.data = <<>>, !.error = <<settled.message>>,
                    !.loading = FALSE]

\* A step of load l: when it completes the promise #load awaits, #load
\* resumes in the same turn of the event loop.
Step(l, load) ==
    /\ loads' = [loads EXCEPT ![l] =
                    IF load.pc = "awaiting" /\ minDuration(load) # <<>>
                    THEN [load EXCEPT !.pc = "settled"] ELSE load]
    /\ element' = IF load.pc = "awaiting" /\ minDuration(load) # <<>>
                  THEN Resumed(element, minDuration(load)[1]) ELSE element

LoadInit ==
    /\ element = [pattern |-> <<"*">>, excludeIgnored |-> FALSE,
                  openDetails |-> <<>>, data |-> <<>>, error |-> <<"">>,
                  loading |-> TRUE]
    /\ loads = <<>>
    /\ rendered = <<>>
    /\ window = <<>>
    /\ css = <<>>
    /\ pc = "unused"
    /\ filePath = <<>>
    /\ extQueue = <<>>
    /\ foundVariables = EmptyMap
    /\ root = <<>>
    /\ foundPropValues = <<>>
    /\ usageFindingsBuffer = <<>>
    /\ tracker = <<>>
    /\ pending = NoReports
    /\ disk = NoReports
    /\ result = <<>>
    /\ failure = <<>>
    /\ AggregatorUnused
    /\ DriverUnused
    /\ PathUnused

\* connectedCallback: #load runs up to its await.
ConnectedCallback ==
    /\ Len(loads) < MaxLoads
    /\ loads' = Append(loads, NewLoad)
    /\ element' = [element EXCEPT !.loading = TRUE, !.error = <<>>]
    /\ UNCHANGED << callVars, aggregatorVars, driverVars, pathVars, window, rendered >>

\* fetch() of load l settles and #fetchData runs to its end.
FetchSettles(l, res) ==
    /\ l \in 1..Len(loads)
    /\ loads[l].fetched = <<>>
    /\ Step(l, [loads[l] EXCEPT !.fetched = <<fetchData(res)>>])
    /\ UNCHANGED << callVars, aggregatorVars, driverVars, pathVars, window, rendered >>

\* The minimum-duration timer of load l fires; timers of the same delay
\* fire in the order they were set.
TimerFires(l) ==
    /\ l \in 1..Len(loads)
    /\ loads[l].timer = "pending"
    /\ \A earlier \in 1..(l - 1) : loads[earlier].timer = "fired"
    /\ Step(l, [loads[l] EXCEPT !.timer = "fired"])
    /\ UNCHANGED << callVars, aggregatorVars, driverVars, pathVars, window, rendered >>

LoadNext ==
    \/ ConnectedCallback
    \/ \E l \in 1..MaxLoads, res \in Responses : FetchSettles(l, res)
    \/ \E l \in 1..MaxLoads : TimerFires(l)

LoadSpec == LoadInit /\ [][LoadNext]_vars

----------------------------------------------------------------------------
\* The element has been connected once and its load has settled.
OneLoadSettled == Len(loads) = 1 /\ loads[1].pc = "settled"

\* _error is a string that is not empty.
HasErrorMessage == element.error # <<>> /\ element.error[1] # ""

(* C22: after the load that connectedCallback started has settled: when the *)
(* fetch failed or returned a response that is not ok, _data is null and    *)
(* _error is a non-empty message; when it succeeded, _data is the parsed    *)
(* payload and _error is null; either way _loading is false.                *)
SettledLoadContract ==
    OneLoadSettled =>
        /\ ~element.loading
        /\ loads[1].fetched[1].state = "rejected" =>
               element.data = <<>> /\ HasErrorMessage
        /\ loads[1].fetched[1].state = "fulfilled" =>
               /\ element.data = <<loads[1].fetched[1].value>>
               /\ element.error = <<>>

FailedLoadReached ==
    /\ OneLoadSettled
    /\ loads[1].fetched[1].state = "rejected"
    /\ loads[1].timer = "fired"

(* C24: _loading stays true until the fetch has settled and the             *)
(* minimum-duration timer has fired, whether the fetch fails or succeeds:   *)
(* it is never false before the timer fires.                                *)
LoadingLastsMinimumDuration ==
    (Len(loads) = 1 /\ ~element.loading) =>
        loads[1].fetched # <<>> /\ loads[1].timer = "fired"

(* C28: when connectedCallback runs more than once so that loads overlap,   *)
(* then however their completions interleave the element never ends with    *)
(* _data non-null and _error non-empty at once.                             *)
OverlappingLoadsSettleAsOne ==
    (Len(loads) > 1 /\ \A l \in 1..Len(loads) : loads[l].pc = "settled") =>
        ~(element.data # <<>> /\ HasErrorMessage)

----------------------------------------------------------------------------
(* NonTokenValuesElement._rows: the rows shown for the loaded data.         *)

\* A pattern without wildcard handling: the descriptor itself.
MatchesExactly(descriptor, pattern) == descriptor = pattern

matchesDescriptorPattern(descriptor, pattern) ==
    IF pattern = <<"*">> THEN TRUE
    ELSE IF ~(\E i \in 1..Len(pattern) : pattern[i] = "*") THEN descriptor = pattern
    ELSE IsPrefix(SubSeq(pattern, 1, Len(pattern) - 1), descriptor)

\* String.prototype.localeCompare on the characters of the row keys:
\* punctuation sorts before digits, digits before letters.
CollationRank(c) ==
    CASE c = ":" -> 0 [] c = "0" -> 1 [] c = "1" -> 2 [] c = "2" -> 3
      [] c = "a" -> 4 [] OTHER -> 5

RECURSIVE LocaleLess(_, _)
LocaleLess(ka, kb) ==
    IF kb = <<>> THEN FALSE
    ELSE IF ka = <<>> THEN TRUE
    ELSE IF Head(ka) # Head(kb)
    THEN CollationRank(Head(ka)) < CollationRank(Head(kb))
    ELSE LocaleLess(Tail(ka), Tail(kb))

\* The comparator of rows.sort: count descending, then descriptor:value.
RowBefore(a, b) ==
    IF b.count # a.count THEN b.count < a.count
    ELSE LocaleLess(a.descriptor \o <<":">> \o a.value,
                    b.descriptor \o <<":">> \o b.value)

RECURSIVE SortRows(_)
SortRows(rowSet) ==
    IF rowSet = {} THEN <<>>
    ELSE LET first == CHOOSE a \in rowSet : \A b \in rowSet \ {a} : RowBefore(a, b)
         IN <<first>> \o SortRows(rowSet \ {first})

\* _rows for the element el.
Rows(el) ==
    IF el.data = <<>> \/ el.data[1].byDescriptor = <<>> THEN <<>>
    ELSE IF ~validatePattern(el.pattern).ok THEN <<>>
    ELSE LET byDesc == el.data[1].byDescriptor[1]
             valObj(d, v) == byDesc[d].values[v]
             kept == { dv \in UNION {{<<d, v>> : v \in DOMAIN byDesc[d].values} :
                                       d \in DOMAIN byDesc} :
                         /\ matchesDescriptorPattern(dv[1], el.pattern)
                         /\ valObj(dv[1], dv[2]).count # <<>>
                         /\ ~valObj(dv[1], dv[2]).containsToken
                         /\ ~(el.excludeIgnored /\ valObj(dv[1], dv[2]).isIgnored) }
         IN SortRows({ [descriptor |-> dv[1], value |-> dv[2],
                        count |-> valObj(dv[1], dv[2]).count[1],
                        files |-> <<[path |-> "a.css",
                                     count |-> valObj(dv[1], dv[2]).files["a.css"]]>>,
                        id |-> valObj(dv[1], dv[2]).id] : dv \in kept })

\* The patterns the element can hold: typed, read from the URL or assigned.
RowPatterns ==
    { <<"*">>, <<"a">>, <<"a", "*">>, <<"d", "*">>, <<"a", "a">>, <<"*", "*">>,
      <<>>, <<"*", "a">>, <<" ", "a">>, <<"a", "*", " ">>, <<"<">> }

RowsInit ==
    /\ \E pattern \in RowPatterns, excludeIgnored \in BOOLEAN,
          data \in { <<>> } \cup { <<payload>> : payload \in Payloads } :
          element = [pattern |-> pattern, excludeIgnored |-> excludeIgnored,
                     openDetails |-> <<>>, data |-> data, error |-> <<>>,
                     loading |-> FALSE]
    /\ loads = <<>>
    /\ rendered = <<>>
    /\ window = <<>>
    /\ css = <<>>
    /\ pc = "unused"
    /\ filePath = <<>>
    /\ extQueue = <<>>
    /\ foundVariables = EmptyMap
    /\ root = <<>>
    /\ foundPropValues = <<>>
    /\ usageFindingsBuffer = <<>>
    /\ tracker = <<>>
    /\ pending = NoReports
    /\ disk = NoReports
    /\ result = <<>>
    /\ failure = <<>>
    /\ AggregatorUnused
    /\ DriverUnused
    /\ PathUnused

\* render() calls _rows.
Render ==
    /\ rendered = <<>>
    /\ rendered' = <<Rows(element)>>
    /\ UNCHANGED << callVars, aggregatorVars, driverVars, pathVars, element,
                    window, loads >>

RowsNext == Render

RowsSpec == RowsInit /\ [][RowsNext]_vars

\* The (descriptor, value) entries of the loaded data.
EntriesOfData ==
    IF element.data = <<>> \/ element.data[1].byDescriptor = <<>> THEN {}
    ELSE UNION {{<<d, v>> : v \in DOMAIN element.data[1].byDescriptor[1][d].values} :
                  d \in DOMAIN element.data[1].byDescriptor[1]}

\* A descriptor matches a pattern: '*' matches all, a pattern without
\* wildcard matches itself, a pattern ending in '*' matches what begins with
\* the part before it.
MatchesPattern(d, pattern) ==
    \/ pattern = <<"*">>
    \/ (\A i \in 1..Len(pattern) : pattern[i] # "*") /\ d = pattern
    \/ /\ pattern # <<>>
       /\ pattern[Len(pattern)] = "*"
       /\ Len(d) >= Len(pattern) - 1
       /\ \A i \in 1..(Len(pattern) - 1) : d[i] = pattern[i]

\* The entries _rows is to return.
ShownEntries ==
    IF ~validatePattern(element.pattern).ok THEN {}
    ELSE { dv \in EntriesOfData :
             LET valObj == element.data[1].byDescriptor[1][dv[1]].values[dv[2]]
             IN /\ MatchesPattern(dv[1], element.pattern)
                /\ valObj.count # <<>>
                /\ valObj.containsToken # TRUE
                /\ (~element.excludeIgnored \/ valObj.isIgnored # TRUE) }

(* C23: _rows returns exactly one row for each (descriptor, value) entry of *)
(* the loaded data whose descriptor matches the pattern, whose count is a   *)
(* number, which holds no token and which is not ignored when               *)
(* excludeIgnored is set; it returns no rows when no data is loaded or      *)
(* validatePattern rejects the pattern.                                     *)
RowsAreTheShownEntries ==
    rendered # <<>> =>
        /\ {<<rendered[1][i].descriptor, rendered[1][i].value>> :
               i \in 1..Len(rendered[1])} = ShownEntries
        /\ Len(rendered[1]) = Cardinality(ShownEntries)

PrefixRowsReached ==
    /\ rendered # <<>>
    /\ element.pattern = <<"a", "*">>
    /\ element.excludeIgnored
    /\ Len(rendered[1]) = 1
    /\ Cardinality(EntriesOfData) = 4

----------------------------------------------------------------------------
\* An event of the controls or of a <details> element is handled.
ControlEvent ==
    \/ \E value \in TypedPatterns : OnPatternInput(value)
    \/ \E checked \in BOOLEAN : OnExcludeToggle(checked)
    \/ \E newKey \in DetailKeys, open \in BOOLEAN : OnToggleDetails(newKey, open)

(* C27: whatever pattern-input, exclude-checkbox, details-toggle and        *)
(* popstate events came before, the 'pattern' parameter that an event       *)
(* handler writes to the URL is a pattern validatePattern accepts: a typed  *)
(* pattern that failed validation never reaches the URL.                    *)
WrittenPatternIsValid ==
    [][(ControlEvent /\ window' # window) =>
          /\ ParamsGet(window'.search, "pattern") # <<>>
          /\ validatePattern(ParamsGet(window'.search, "pattern")[1]).ok]_vars

----------------------------------------------------------------------------
(* A driver that analyses its files one after another: it awaits each       *)
(* getPropagationData call before it makes the next.                        *)
SequentialNext ==
    /\ RunNext
    /\ Cardinality({c \in CallIds : calls'[c].pc \in {"parse", "mkdir", "write"}}) <= 1

SequentialSpec == RunInit /\ [][SequentialNext]_vars

\* Every total and count of the earlier reports is in the later ones, and is
\* no smaller there.
Cumulative(earlier, later) ==
    /\ earlier.tokenUsage # <<>> =>
          /\ later.tokenUsage # <<>>
          /\ \A token \in DOMAIN earlier.tokenUsage[1].byToken :
                /\ token \in DOMAIN later.tokenUsage[1].byToken
                /\ later.tokenUsage[1].byToken[token].total
                       >= earlier.tokenUsage[1].byToken[token].total
    /\ earlier.descriptorValues # <<>> =>
          /\ later.descriptorValues # <<>>
          /\ \A d \in DOMAIN earlier.descriptorValues[1].byDescriptor :
                /\ d \in DOMAIN later.descriptorValues[1].byDescriptor
                /\ \A v \in DOMAIN earlier.descriptorValues[1].byDescriptor[d].values :
                      /\ v \in DOMAIN later.descriptorValues[1].byDescriptor[d].values
                      /\ later.descriptorValues[1].byDescriptor[d].values[v].count
                           >= earlier.descriptorValues[1].byDescriptor[d].values[v].count

(* C25: when the files of a run are analysed one after another, the         *)
(* aggregates written after each file accumulate: every token total and     *)
(* every (descriptor, value) count written after a file is at least what    *)
(* was written after the file before it, and no token or pair disappears.   *)
WrittenAggregatesAccumulate == [][Cumulative(disk, disk')]_vars

SecondFileAddedReached ==
    /\ \A c \in CallIds : calls[c].pc = "done"
    /\ disk = calls[2].pending
    /\ \E token \in DOMAIN calls[1].pending.tokenUsage[1].byToken :
          disk.tokenUsage[1].byToken[token].total
              > calls[1].pending.tokenUsage[1].byToken[token].total

----------------------------------------------------------------------------
\* The tokenizable declarations collectDeclarations finds in the file of a call.
DeclarationsOf(c) ==
    collectDeclarations(RunFiles[calls[c].filePath],
                        collectExternalVars(calls[c].filePath),
                        calls[c].filePath).declarations

(* C26: the resolution loop of a file runs without suspension.  Also with   *)
(* several getPropagationData calls in flight, the findings of a file are   *)
(* one per tokenizable declaration, next to each other in the shared buffer *)
(* in declaration order with no finding of another file between them, and   *)
(* the aggregates built for the file include all of them.                   *)
FindingsOfAFileAreContiguous ==
    \A c \in CallIds :
        HasResolved(c) =>
            /\ calls[c].pushed[2] - calls[c].pushed[1] + 1 = Len(DeclarationsOf(c))
            /\ calls[c].pushed[2] <= Len(usageFindingsBuffer)
            /\ \A i \in 1..Len(DeclarationsOf(c)) :
                  LET finding == usageFindingsBuffer[calls[c].pushed[1] + i - 1]
                  IN /\ finding.path = calls[c].filePath
                     /\ finding.descriptor = DeclarationsOf(c)[i].prop
                     /\ finding.value = DeclarationsOf(c)[i].value
            /\ calls[c].pending.descriptorValues
                   = <<buildUsageAggregates(
                          SubSeq(usageFindingsBuffer, 1, calls[c].pushed[2])).descriptorValues>>
            /\ calls[c].pending.tokenUsage
                   = <<buildUsageAggregates(
                          SubSeq(usageFindingsBuffer, 1, calls[c].pushed[2])).tokenUsage>>

TwoCallsInFlightReached ==
    /\ calls[1].pc \in {"mkdir", "write"}
    /\ calls[2].pc \in {"mkdir", "write"}
    /\ calls[1].filePath # calls[2].filePath
    /\ calls[1].run = calls[2].run
    /\ Len(DeclarationsOf(1)) > 1
    /\ Len(DeclarationsOf(2)) > 1

----------------------------------------------------------------------------
(* C29: for a findings list in which no finding is both ignored and         *)
(* token-holding, no (descriptor, value) bucket of the descriptor-value     *)
(* aggregate has containsToken and isIgnored both true, and a bucket's      *)
(* containsToken is true exactly when some finding of its pair holds a      *)
(* token.                                                                   *)
BucketFlagsFollowFindings ==
    ( /\ Aggregated
      /\ \A i \in 1..Len(givenFindings) :
            givenFindings[i].isIgnored => ~givenFindings[i].containsToken )
    => \A d \in DOMAIN byDescriptor :
          \A v \in DOMAIN byDescriptor[d].values :
              /\ ~(byDescriptor[d].values[v].containsToken
                   /\ byDescriptor[d].values[v].isIgnored)
              /\ byDescriptor[d].values[v].containsToken
                   <=> \E i \in 1..Len(givenFindings) :
                          /\ givenFindings[i].descriptor = d
                          /\ givenFindings[i].value = v
                          /\ givenFindings[i].containsToken

----------------------------------------------------------------------------
(* C30: when getPropagationData raises an error for a file, also when the   *)
(* failure is in creating the output directory or in writing a report, the  *)
(* findings buffer and the unresolved-variable tracker hold nothing of that *)
(* file: they are as they were before the call.                             *)
FailedCallLeavesNoTrace ==
    pc = "failed" => usageFindingsBuffer = <<>> /\ tracker = <<>>

====
